---- MODULE Spec2Model ----
(***************************************************************************)
(* Card layout and text fitting of the standee card generators:            *)
(*   src/pdf-generator/generate_cards.py      (vector backend, ReportLab)  *)
(*   src/pdf-generator/generate_png_cards.py  (raster backend, PIL)        *)
(*   src/pdf-generator/convert_png_to_pdf.py  (whole-page image placement) *)
(*   src/border-addition/add_border.py        (outline around a cut-out)   *)
(*                                                                         *)
(* A text is a sequence of one-character strings.  A line or a token is a  *)
(* text as well.  Python floats are modelled bit for bit further down.     *)
(***************************************************************************)
EXTENDS Integers, Sequences, FiniteSets, TLC

VARIABLES
    \* _optimal_line_break: its arguments, the list it returns, who ran
    text, char_threshold, max_lines, tokens_out, lines, lb_pc,
    \* generate_card: self.config and self.scale_factor, the arguments, what
    \* _validate_image finds for the two image files, and what the call of each
    \* generator computed and returned
    config, scale_factor, person_name, person_image_ok, qr_code_ok,
    pdf_card, png_card,
    \* calls on one generator object that are under way at the same time: the
    \* argument and the local variables of each
    calls,
    \* image placement: the pixel size of the image file, the box handed to
    \* _draw_centered_image and _paste_centered_image, the configuration of
    \* PNGtoPDFConverter, whether its _validate_image accepts the file, and what
    \* the placement that ran computed
    image_size, box, convert_config, png_valid, placed,
    \* _draw_centered_text: its arguments (with the width of one character at
    \* font size 1, which stands for the font's metrics) and what it drew
    text_call, text_drawn,
    \* a run of main: which generator, self.config, the rows csv.DictReader
    \* delivers, whether the QR image file is a readable image, the files in the
    \* output directory; then the position in main / generate_all_cards /
    \* generate_card, the loop index, the two counters, the record in hand, the
    \* canvas in memory, what happened so far, the exit status, and the run
    \* before this one; whether the output directory takes files, the files
    \* this run wrote, the layout each call of generate_card computed, and the
    \* output path worked out for each name
    run_backend, run_config, csv_rows, qr_file_ok, disk,
    run_pc, idx, success_count, fail_count, cur, canvas, run_log, exit_status,
    earlier_run, dir_writable, written, layouts, paths,
    \* add_border_to_subject: the pixels of the input image with the border
    \* colour and width, and what the call saved and returned
    border_call, border_saved

lb_vars == <<text, char_threshold, max_lines, tokens_out, lines, lb_pc>>
card_vars == <<config, scale_factor, person_name, person_image_ok, qr_code_ok,
               pdf_card, png_card, calls>>
image_vars == <<image_size, box, convert_config, png_valid, placed>>
text_vars == <<text_call, text_drawn>>
run_vars == <<run_backend, run_config, csv_rows, qr_file_ok, disk,
              run_pc, idx, success_count, fail_count, cur, canvas, run_log, exit_status,
              earlier_run, dir_writable, written, layouts, paths>>
border_vars == <<border_call, border_saved>>
vars == <<lb_vars, card_vars, image_vars, text_vars, run_vars, border_vars>>

-----------------------------------------------------------------------------
(* Bounds and input sets of the line breaker *)

\* longest enumerated text
MaxLen == 5
\* largest enumerated char_threshold
MaxThreshold == 5

Chars == {"a", "b", " ", ","}

RECURSIVE TextsUpTo(_)
TextsUpTo(n) ==
    IF n = 0 THEN {<<>>}
    ELSE LET shorter == TextsUpTo(n - 1)
         IN shorter \cup {Append(t, c) : t \in {s \in shorter : Len(s) = n - 1}, c \in Chars}

\* "Alice, Bob Carter"
AliceBobCarter ==
    <<"A","l","i","c","e",","," ","B","o","b"," ","C","a","r","t","e","r">>
\* "Supercalifragilisticexpialidocious"
Supercali ==
    <<"S","u","p","e","r","c","a","l","i","f","r","a","g","i","l","i","s","t","i","c",
      "e","x","p","i","a","l","i","d","o","c","i","o","u","s">>
\* "a b a b": four tokens, so that the greedy packer can run out of lines
FourTokens == <<"a"," ","b"," ","a"," ","b">>

Texts == TextsUpTo(MaxLen) \cup {AliceBobCarter, Supercali, FourTokens}
Thresholds == (0 .. MaxThreshold) \cup {10, 22}
MaxLinesSet == {1, 2, 3}

-----------------------------------------------------------------------------
(* str.join with a single space *)

RECURSIVE Join(_)
Join(toks) ==
    IF toks = <<>> THEN <<>>
    ELSE IF Len(toks) = 1 THEN toks[1]
    ELSE toks[1] \o <<" ">> \o Join(Tail(toks))

\* s[:n] of a Python list, for n >= 0
Take(s, n) == SubSeq(s, 1, IF n < Len(s) THEN n ELSE Len(s))
\* s[n:] of a Python list, for n >= 0
Drop(s, n) == SubSeq(s, n + 1, Len(s))

-----------------------------------------------------------------------------
(* CardGenerator._optimal_line_break (generate_cards.py) *)

\* the tokenizer loop: `for char in text`, then the flush of current_token
RECURSIVE TokenizeLoop(_, _, _, _)
TokenizeLoop(txt, i, tokens, current_token) ==
    IF i > Len(txt)
    THEN IF current_token # <<>> THEN Append(tokens, current_token) ELSE tokens
    ELSE LET char == txt[i] IN
         IF char \in {" ", ","}
         THEN IF current_token # <<>>
              THEN TokenizeLoop(txt, i + 1,
                       Append(tokens, IF char = ","
                                      THEN Append(current_token, ",")
                                      ELSE current_token),
                       <<>>)
              ELSE TokenizeLoop(txt, i + 1, tokens, current_token)
         ELSE TokenizeLoop(txt, i + 1, tokens, Append(current_token, char))

Tokenize(txt) == TokenizeLoop(txt, 1, <<>>, <<>>)

\* `for i in range(1, len(tokens))`: the pair <<best_break, best_first_line_len>>
RECURSIVE BestBreakLoop(_, _, _, _, _)
BestBreakLoop(tokens, threshold, i, best_break, best_first_line_len) ==
    IF i >= Len(tokens) THEN <<best_break, best_first_line_len>>
    ELSE LET first_line_len == Len(Join(Take(tokens, i))) IN
         IF first_line_len <= threshold /\ first_line_len > best_first_line_len
         THEN BestBreakLoop(tokens, threshold, i + 1, i, first_line_len)
         ELSE BestBreakLoop(tokens, threshold, i + 1, best_break, best_first_line_len)

\* variant: stops at the first split point that fits
BestBreakFirstFit(tokens, threshold) ==
    LET fits == {i \in 1 .. (Len(tokens) - 1) : Len(Join(Take(tokens, i))) <= threshold}
    IN IF fits = {} THEN 0 ELSE CHOOSE i \in fits : \A j \in fits : i <= j

\* variant: a first line as long as the threshold does not count as fitting
BestBreakStrict(tokens, threshold) == BestBreakLoop(tokens, threshold - 1, 1, 0, 0)[1]

BestBreak(tokens, threshold) == BestBreakLoop(tokens, threshold, 1, 0, 0)[1]

\* variant: the fallback rounds the midpoint up
TwoLineBreakCeilMid(tokens, threshold) ==
    LET best_break == BestBreak(tokens, threshold)
        mid == (Len(tokens) + 1) \div 2
    IN IF best_break > 0
       THEN <<Join(Take(tokens, best_break)), Join(Drop(tokens, best_break))>>
       ELSE <<Join(Take(tokens, mid)), Join(Drop(tokens, mid))>>

\* variant: the second line of the fallback starts one token late
TwoLineBreakSkipToken(tokens, threshold) ==
    LET best_break == BestBreak(tokens, threshold)
        mid == Len(tokens) \div 2
    IN IF best_break > 0
       THEN <<Join(Take(tokens, best_break)), Join(Drop(tokens, best_break))>>
       ELSE <<Join(Take(tokens, mid)), Join(Drop(tokens, mid + 1))>>

TwoLineBreak(tokens, threshold) ==
    LET best_break == BestBreak(tokens, threshold)
        mid == Len(tokens) \div 2
    IN IF best_break > 0
       THEN <<Join(Take(tokens, best_break)), Join(Drop(tokens, best_break))>>
       ELSE <<Join(Take(tokens, mid)), Join(Drop(tokens, mid))>>

\* the tail of the greedy packer: the last append and `lines[:max_lines]`
\* variant: the tail of the packer without the line limit
GreedyFinishNoLimit(lns, current_line, mx) ==
    IF current_line # <<>> THEN Append(lns, Join(current_line)) ELSE lns

GreedyFinish(lns, current_line, mx) ==
    Take(IF current_line # <<>> /\ Len(lns) < mx
         THEN Append(lns, Join(current_line))
         ELSE lns, mx)

\* `for token in tokens` of the greedy packer, with its break
RECURSIVE GreedyLoop(_, _, _, _, _, _)
GreedyLoop(tokens, i, threshold, mx, lns, current_line) ==
    IF i > Len(tokens) THEN GreedyFinish(lns, current_line, mx)
    ELSE LET token == tokens[i]
             test_line == Join(Append(current_line, token))
         IN IF Len(test_line) <= threshold
            THEN GreedyLoop(tokens, i + 1, threshold, mx, lns, Append(current_line, token))
            ELSE LET lns2 == IF current_line # <<>>
                             THEN Append(lns, Join(current_line))
                             ELSE Append(lns, token)
                     cur2 == IF current_line # <<>> THEN <<token>> ELSE current_line
                 IN IF Len(lns2) >= mx
                    THEN GreedyFinish(lns2, cur2, mx)
                    ELSE GreedyLoop(tokens, i + 1, threshold, mx, lns2, cur2)

\* variant: a single token is returned as tokenized (`return tokens`)
optimal_line_break_tokens(txt, threshold, mx) ==
    LET tokens == Tokenize(txt) IN
    IF Len(tokens) = 0 THEN <<txt>>
    ELSE IF Len(tokens) = 1 THEN tokens
    ELSE IF mx = 2 THEN TwoLineBreak(tokens, threshold)
    ELSE GreedyLoop(tokens, 1, threshold, mx, <<>>, <<>>)

optimal_line_break(txt, threshold, mx) ==
    LET tokens == Tokenize(txt) IN
    IF Len(tokens) = 0 THEN <<txt>>
    ELSE IF Len(tokens) = 1 THEN <<txt>>
    ELSE IF mx = 2 THEN TwoLineBreak(tokens, threshold)
    ELSE GreedyLoop(tokens, 1, threshold, mx, <<>>, <<>>)

-----------------------------------------------------------------------------
(* PNGCardGenerator._optimal_line_break (generate_png_cards.py) *)

RECURSIVE PngTokenizeLoop(_, _, _, _)
PngTokenizeLoop(txt, i, tokens, current_token) ==
    IF i > Len(txt)
    THEN IF current_token # <<>> THEN Append(tokens, current_token) ELSE tokens
    ELSE LET char == txt[i] IN
         IF char \in {" ", ","}
         THEN IF current_token # <<>>
              THEN PngTokenizeLoop(txt, i + 1,
                       Append(tokens, IF char = ","
                                      THEN Append(current_token, ",")
                                      ELSE current_token),
                       <<>>)
              ELSE PngTokenizeLoop(txt, i + 1, tokens, current_token)
         ELSE PngTokenizeLoop(txt, i + 1, tokens, Append(current_token, char))

PngTokenize(txt) == PngTokenizeLoop(txt, 1, <<>>, <<>>)

RECURSIVE PngBestBreakLoop(_, _, _, _, _)
PngBestBreakLoop(tokens, threshold, i, best_break, best_first_line_len) ==
    IF i >= Len(tokens) THEN <<best_break, best_first_line_len>>
    ELSE LET first_line_len == Len(Join(Take(tokens, i))) IN
         IF first_line_len <= threshold /\ first_line_len > best_first_line_len
         THEN PngBestBreakLoop(tokens, threshold, i + 1, i, first_line_len)
         ELSE PngBestBreakLoop(tokens, threshold, i + 1, best_break, best_first_line_len)

PngBestBreak(tokens, threshold) == PngBestBreakLoop(tokens, threshold, 1, 0, 0)[1]

PngTwoLineBreak(tokens, threshold) ==
    LET best_break == PngBestBreak(tokens, threshold)
        mid == Len(tokens) \div 2
    IN IF best_break > 0
       THEN <<Join(Take(tokens, best_break)), Join(Drop(tokens, best_break))>>
       ELSE <<Join(Take(tokens, mid)), Join(Drop(tokens, mid))>>

PngGreedyFinish(lns, current_line, mx) ==
    Take(IF current_line # <<>> /\ Len(lns) < mx
         THEN Append(lns, Join(current_line))
         ELSE lns, mx)

RECURSIVE PngGreedyLoop(_, _, _, _, _, _)
PngGreedyLoop(tokens, i, threshold, mx, lns, current_line) ==
    IF i > Len(tokens) THEN PngGreedyFinish(lns, current_line, mx)
    ELSE LET token == tokens[i]
             test_line == Join(Append(current_line, token))
         IN IF Len(test_line) <= threshold
            THEN PngGreedyLoop(tokens, i + 1, threshold, mx, lns, Append(current_line, token))
            ELSE LET lns2 == IF current_line # <<>>
                             THEN Append(lns, Join(current_line))
                             ELSE Append(lns, token)
                     cur2 == IF current_line # <<>> THEN <<token>> ELSE current_line
                 IN IF Len(lns2) >= mx
                    THEN PngGreedyFinish(lns2, cur2, mx)
                    ELSE PngGreedyLoop(tokens, i + 1, threshold, mx, lns2, cur2)

png_optimal_line_break(txt, threshold, mx) ==
    LET tokens == PngTokenize(txt) IN
    IF Len(tokens) = 0 THEN <<txt>>
    ELSE IF Len(tokens) = 1 THEN <<txt>>
    ELSE IF mx = 2 THEN PngTwoLineBreak(tokens, threshold)
    ELSE PngGreedyLoop(tokens, 1, threshold, mx, <<>>, <<>>)


-----------------------------------------------------------------------------
(* Python floats: IEEE-754 binary64, every operation rounded to nearest, ties *)
(* to even.  A value is [neg, m, e]: the number (-1)^neg * m * 2^e, with m a   *)
(* binary numeral, most significant bit first, that begins and ends with 1    *)
(* (empty for zero).  The operations named Dy... are exact, the ones named    *)
(* Float... round their result to MantissaBits significant bits as Python     *)
(* does.  The lengths of this model stay far from overflow and underflow.     *)

\* significant bits of a Python float (sys.float_info.mant_dig)
MantissaBits == 53

Abs(n) == IF n < 0 THEN -n ELSE n
Zeros(n) == [i \in 1 .. n |-> 0]

\* the binary numeral of a natural number, and back
RECURSIVE NatBits(_)
NatBits(n) == IF n = 0 THEN <<>> ELSE Append(NatBits(n \div 2), n % 2)

RECURSIVE BitsNat(_)
BitsNat(b) ==
    IF b = <<>> THEN 0 ELSE 2 * BitsNat(SubSeq(b, 1, Len(b) - 1)) + b[Len(b)]

PadLeft(b, n) == Zeros(n - Len(b)) \o b

\* the canonical value of sign, numeral and exponent
Dy(neg, b, e) ==
    LET ones == {i \in 1 .. Len(b) : b[i] = 1} IN
    IF ones = {} THEN [neg |-> FALSE, m |-> <<>>, e |-> 0]
    ELSE LET first == CHOOSE i \in ones : \A j \in ones : i <= j
             last == CHOOSE i \in ones : \A j \in ones : j <= i
         IN [neg |-> neg, m |-> SubSeq(b, first, last), e |-> e + (Len(b) - last)]

\* a + b of two numerals: bit i of the sum takes the carry of the nearest lower
\* position where both bits are set, if every position between passes it on
AddBits(a, b) ==
    LET n == IF Len(a) > Len(b) THEN Len(a) ELSE Len(b)
        pa == PadLeft(a, n)
        pb == PadLeft(b, n)
        carry == [i \in 0 .. n |->
                    IF \E j \in (i + 1) .. n :
                          /\ pa[j] + pb[j] = 2
                          /\ \A k \in (i + 1) .. (j - 1) : pa[k] + pb[k] >= 1
                    THEN 1 ELSE 0]
        sum == [i \in 1 .. n |-> (pa[i] + pb[i] + carry[i]) % 2]
    IN IF carry[0] = 1 THEN <<1>> \o sum ELSE sum

\* a - b of two numerals, a >= b
SubBits(a, b) ==
    LET n == IF Len(a) > Len(b) THEN Len(a) ELSE Len(b)
        pa == PadLeft(a, n)
        pb == PadLeft(b, n)
        borrow == [i \in 1 .. n |->
                     IF \E j \in (i + 1) .. n :
                           /\ pa[j] < pb[j]
                           /\ \A k \in (i + 1) .. (j - 1) : pa[k] <= pb[k]
                     THEN 1 ELSE 0]
    IN [i \in 1 .. n |-> (pa[i] - pb[i] - borrow[i] + 2) % 2]

\* a < b of two numerals
LessBits(a, b) ==
    LET n == IF Len(a) > Len(b) THEN Len(a) ELSE Len(b)
        pa == PadLeft(a, n)
        pb == PadLeft(b, n)
    IN \E i \in 1 .. n : pa[i] < pb[i] /\ \A j \in 1 .. (i - 1) : pa[j] = pb[j]

\* a * n of a numeral and a natural number, by doubling and adding
RECURSIVE MulBits(_, _)
MulBits(a, n) ==
    IF n = 0 THEN <<>>
    ELSE LET twice == Append(MulBits(a, n \div 2), 0)
         IN IF n % 2 = 1 THEN AddBits(twice, a) ELSE twice

DyOfInt(n) == Dy(n < 0, NatBits(Abs(n)), 0)
DyNeg(x) == IF x.m = <<>> THEN x ELSE [x EXCEPT !.neg = ~x.neg]

\* the numeral of |x| in units of 2^e, for e <= x.e
Align(x, e) == x.m \o Zeros(x.e - e)

DyAdd(x, y) ==
    LET e == IF x.e < y.e THEN x.e ELSE y.e
        a == Align(x, e)
        b == Align(y, e)
    IN IF x.neg = y.neg THEN Dy(x.neg, AddBits(a, b), e)
       ELSE IF LessBits(a, b) THEN Dy(y.neg, SubBits(b, a), e)
       ELSE Dy(x.neg, SubBits(a, b), e)

DySub(x, y) == DyAdd(x, DyNeg(y))
DyMulInt(n, x) == Dy(x.neg # (n < 0), MulBits(x.m, Abs(n)), x.e)
DyLess(x, y) == DySub(x, y).neg
DyLeq(x, y) == ~DyLess(y, x)

\* round to nearest, ties to even
FloatRound(x) ==
    IF Len(x.m) <= MantissaBits THEN x
    ELSE LET keep == SubSeq(x.m, 1, MantissaBits)
             round_bit == x.m[MantissaBits + 1]
             sticky == \E i \in (MantissaBits + 2) .. Len(x.m) : x.m[i] = 1
             up == round_bit = 1 /\ (sticky \/ keep[MantissaBits] = 1)
         IN Dy(x.neg, IF up THEN AddBits(keep, <<1>>) ELSE keep,
               x.e + (Len(x.m) - MantissaBits))

\* 2^k modulo b, by squaring
RECURSIVE Pow2Mod(_, _)
Pow2Mod(k, b) ==
    IF k = 0 THEN 1 % b
    ELSE LET h == Pow2Mod(k \div 2, b)
         IN (((h * h) % b) * (IF k % 2 = 1 THEN 2 ELSE 1)) % b

\* a / b of two Python ints, b # 0: the correctly rounded quotient.  The quotient
\* is developed to k binary places, enough to hold MantissaBits + 2 significant
\* bits; a last 1 stands for a remainder that is not zero.
FloatDivInt(a, b) ==
    LET d == Abs(b)
        r == Abs(a) % d
        k == MantissaBits + 2 + Len(NatBits(d))
        places == [i \in 1 .. k |-> (2 * ((r * Pow2Mod(i - 1, d)) % d)) \div d]
        q == NatBits(Abs(a) \div d) \o places
        exact == (r * Pow2Mod(k, d)) % d = 0
    IN FloatRound(IF exact THEN Dy((a < 0) # (b < 0), q, -k)
                  ELSE Dy((a < 0) # (b < 0), Append(q, 1), -(k + 1)))

\* n * x, n + x, n - x and x / 2 of a Python int n and a float x
FloatMulInt(n, x) == FloatRound(DyMulInt(n, x))
FloatAddInt(n, x) == FloatRound(DyAdd(DyOfInt(n), x))
FloatSubFromInt(n, x) == FloatRound(DySub(DyOfInt(n), x))
FloatAdd(x, y) == FloatRound(DyAdd(x, y))
FloatHalf(x) == IF x.m = <<>> THEN x ELSE [x EXCEPT !.e = @ - 1]

\* max(a, b) and min(a, b): Python returns the first argument unless the second
\* is strictly larger (smaller)
FloatMax(a, b) == IF DyLess(a, b) THEN b ELSE a
FloatMin(a, b) == IF DyLess(b, a) THEN b ELSE a

\* int(x): truncation toward zero
FloatToInt(x) ==
    LET mag == IF x.e >= 0 THEN BitsNat(x.m \o Zeros(x.e))
               ELSE IF -x.e >= Len(x.m) THEN 0
               ELSE BitsNat(SubSeq(x.m, 1, Len(x.m) + x.e))
    IN IF x.neg THEN -mag ELSE mag

-----------------------------------------------------------------------------
(* The configuration: a JSON object, here a function from the keys that are  *)
(* present to their values.  Lengths are JSON integers (points).             *)

\* largest enumerated top_padding_pt and bottom_padding_pt
MaxPad == 1
\* largest enumerated gap_before_message_pt
MaxGap == 1

\* dict.get(key, default)
CfgGet(cfg, key, default) == IF key \in DOMAIN cfg THEN cfg[key] ELSE default

FullConfig(tp, bp, gap, thr, photo, bottom, margin) ==
    [k \in {"page_width_pt", "page_height_pt", "horizontal_padding_pt",
            "top_padding_pt", "bottom_padding_pt", "top_margin_pt",
            "name_length_threshold",
            "name_box_height_pt_short", "name_box_height_pt_long",
            "name_font_size_pt_short", "name_font_size_pt_long",
            "photo_section_height_pt", "qr_section_height_pt",
            "gap_before_message_pt", "message_box_height_pt",
            "bottom_box_height_pt", "name_box_horizontal_margin_pt",
            "bottom_box_horizontal_margin_pt"} |->
        CASE k = "page_width_pt" -> 216
          [] k = "page_height_pt" -> 504
          [] k = "horizontal_padding_pt" -> 18
          [] k = "top_padding_pt" -> tp
          [] k = "bottom_padding_pt" -> bp
          [] k = "top_margin_pt" -> 10
          [] k = "name_length_threshold" -> thr
          [] k = "name_box_height_pt_short" -> 30
          [] k = "name_box_height_pt_long" -> 50
          [] k = "name_font_size_pt_short" -> 18
          [] k = "name_font_size_pt_long" -> 14
          [] k = "photo_section_height_pt" -> photo
          [] k = "qr_section_height_pt" -> 100
          [] k = "gap_before_message_pt" -> gap
          [] k = "message_box_height_pt" -> 40
          [] k = "bottom_box_height_pt" -> bottom
          [] k = "name_box_horizontal_margin_pt" -> margin
          [] k = "bottom_box_horizontal_margin_pt" -> margin]

\* the keys generate_card reads with cfg.get: they may be absent
OptionalKeys == {"top_padding_pt", "bottom_padding_pt", "name_length_threshold",
                 "bottom_box_height_pt", "name_box_horizontal_margin_pt",
                 "bottom_box_horizontal_margin_pt"}

\* the sets of keys left out of a configuration: none, every optional key, or
\* the required key gap_before_message_pt
AbsentSets == {{}, OptionalKeys, {"gap_before_message_pt"}}

WithoutKeys(cfg, absent) == [k \in (DOMAIN cfg) \ absent |-> cfg[k]]

\* the key that lists the sides of a section that get a border
BorderSidesKey(sec) ==
    CASE sec = "name" -> "name_box_border_sides"
      [] sec = "qr" -> "qr_section_border_sides"
      [] sec = "message" -> "message_box_border_sides"

\* the border sides a configuration asks for: no key at all, or a list of
\* sides for each of the three sections
BorderChoices ==
    {<<>>,
     [name |-> {"top", "bottom"}, qr |-> {"left", "right"}, message |-> {}],
     [name |-> {"left", "right", "top", "bottom"}, qr |-> {"top"}, message |-> {"bottom"}],
     [name |-> {"left"}, qr |-> {"bottom", "left"}, message |-> {"top", "right", "left"}]}

WithBorders(cfg, sides) ==
    LET keys == {BorderSidesKey(sec) : sec \in DOMAIN sides}
    IN [k \in (DOMAIN cfg) \cup keys |->
           IF k \in keys THEN sides[CHOOSE sec \in DOMAIN sides : BorderSidesKey(sec) = k]
           ELSE cfg[k]]

Configs ==
    {WithBorders(WithoutKeys(FullConfig(tp, bp, gap, thr, photo, bottom, margin), absent),
                 sides) :
        tp \in 0 .. MaxPad, bp \in 0 .. MaxPad, gap \in 0 .. MaxGap,
        thr \in {2, 22}, photo \in {0, 200}, bottom \in {0, 20}, margin \in {0, 5},
        absent \in AbsentSets, sides \in BorderChoices}

\* "Bo"
Bo == <<"B","o">>
\* "a b"
AspaceB == <<"a"," ","b">>
\* "Anna Maria Lopez-Smith": 22 characters
Name22 == <<"A","n","n","a"," ","M","a","r","i","a"," ","L","o","p","e","z","-","S","m","i","t","h">>
\* "Anna Maria Lopez-Smiths": 23 characters
Name23 == <<"A","n","n","a"," ","M","a","r","i","a"," ","L","o","p","e","z","-","S","m","i","t","h","s">>
\* "Dr. Evelyn Alexandra Montgomery-Whitfield": 41 characters
DrEvelyn ==
    <<"D","r","."," ","E","v","e","l","y","n"," ","A","l","e","x","a","n","d","r","a"," ",
      "M","o","n","t","g","o","m","e","r","y","-","W","h","i","t","f","i","e","l","d">>

Names == {Bo, AspaceB, Name22, Name23, DrEvelyn}

Sections == {"photo", "name", "qr", "message", "bottom_box"}

-----------------------------------------------------------------------------
(* CardGenerator.generate_card (generate_cards.py): tier and geometry *)

\* variant: the tier comparison is not strict
IsLongNameGeq(name, name_length_threshold) == Len(name) >= name_length_threshold

IsLongName(name, name_length_threshold) == Len(name) > name_length_threshold

\* variant: the message top leaves out gap_before_message
PdfTopsNoGap(top_padding, top_margin, photo_height, name_height, qr_height, gap_before_msg, message_height) ==
    LET y_top_photo == top_padding + top_margin
        y_top_name == y_top_photo + photo_height
        y_top_qr == y_top_name + name_height
        y_top_message == y_top_qr + qr_height
        y_top_bottom_box == y_top_message + message_height
    IN [photo |-> y_top_photo, name |-> y_top_name, qr |-> y_top_qr,
        message |-> y_top_message, bottom_box |-> y_top_bottom_box]

\* y_top_photo .. y_top_bottom_box: the tops measured from the top edge
PdfTops(top_padding, top_margin, photo_height, name_height, qr_height, gap_before_msg, message_height) ==
    LET y_top_photo == top_padding + top_margin
        y_top_name == y_top_photo + photo_height
        y_top_qr == y_top_name + name_height
        y_top_message == y_top_qr + qr_height + gap_before_msg
        y_top_bottom_box == y_top_message + message_height
    IN [photo |-> y_top_photo, name |-> y_top_name, qr |-> y_top_qr,
        message |-> y_top_message, bottom_box |-> y_top_bottom_box]

\* variant: the conversion forgets the section's own height
PdfNativeYNoHeight(page_height, y_top, height, bottom_padding) ==
    page_height - y_top - bottom_padding

\* y_photo .. y_bottom_box: the bottom edge in ReportLab's bottom-up coordinates
PdfNativeY(page_height, y_top, height, bottom_padding) ==
    page_height - y_top - height - bottom_padding

\* the keys the geometry of generate_card reads with cfg[...]
PdfGeometryKeys(name, cfg) ==
    {"page_width_pt", "page_height_pt", "horizontal_padding_pt", "top_margin_pt",
     "photo_section_height_pt", "qr_section_height_pt", "gap_before_message_pt",
     "message_box_height_pt"}
    \cup (IF IsLongName(name, CfgGet(cfg, "name_length_threshold", 22))
          THEN {"name_box_height_pt_long", "name_font_size_pt_long"}
          ELSE {"name_box_height_pt_short", "name_font_size_pt_short"})

PdfGeometry(cfg, name) ==
    LET page_width == cfg["page_width_pt"]
        page_height == cfg["page_height_pt"]
        h_padding == cfg["horizontal_padding_pt"]
        top_padding == CfgGet(cfg, "top_padding_pt", 0)
        bottom_padding == CfgGet(cfg, "bottom_padding_pt", 0)
        top_margin == cfg["top_margin_pt"]
        content_width == page_width - (2 * h_padding)
        name_length_threshold == CfgGet(cfg, "name_length_threshold", 22)
        is_long_name == IsLongName(name, name_length_threshold)
        name_height == IF is_long_name THEN cfg["name_box_height_pt_long"]
                                       ELSE cfg["name_box_height_pt_short"]
        name_font_size == IF is_long_name THEN cfg["name_font_size_pt_long"]
                                          ELSE cfg["name_font_size_pt_short"]
        name_multiline == is_long_name
        photo_height == cfg["photo_section_height_pt"]
        qr_height == cfg["qr_section_height_pt"]
        gap_before_msg == cfg["gap_before_message_pt"]
        message_height == cfg["message_box_height_pt"]
        bottom_box_height == CfgGet(cfg, "bottom_box_height_pt", 0)
        y_top == PdfTops(top_padding, top_margin, photo_height, name_height,
                         qr_height, gap_before_msg, message_height)
        name_h_margin == CfgGet(cfg, "name_box_horizontal_margin_pt", 0)
        bottom_h_margin == CfgGet(cfg, "bottom_box_horizontal_margin_pt", 0)
    IN [page_width |-> page_width,
        page_height |-> page_height,
        is_long_name |-> is_long_name,
        name_font_size |-> name_font_size,
        name_multiline |-> name_multiline,
        name_length_threshold |-> name_length_threshold,
        y_top |-> y_top,
        rect |->
          [photo |-> [x |-> h_padding,
                      y |-> PdfNativeY(page_height, y_top.photo, photo_height, bottom_padding),
                      width |-> content_width, height |-> photo_height],
           name |-> [x |-> h_padding + name_h_margin,
                     y |-> PdfNativeY(page_height, y_top.name, name_height, bottom_padding),
                     width |-> content_width - (2 * name_h_margin), height |-> name_height],
           qr |-> [x |-> h_padding,
                   y |-> PdfNativeY(page_height, y_top.qr, qr_height, bottom_padding),
                   width |-> content_width, height |-> qr_height],
           message |-> [x |-> h_padding,
                        y |-> PdfNativeY(page_height, y_top.message, message_height, bottom_padding),
                        width |-> content_width, height |-> message_height],
           bottom_box |-> [x |-> h_padding + bottom_h_margin,
                           y |-> PdfNativeY(page_height, y_top.bottom_box, bottom_box_height,
                                            bottom_padding),
                           width |-> content_width - (2 * bottom_h_margin),
                           height |-> bottom_box_height]]]

\* variant: 'top' and 'bottom' are taken as in top-down coordinates
PdfBordersTopDown(cfg, geo) ==
    {LET r == geo.rect[b[1]]
     IN [section |-> b[1], side |-> b[2],
         x1 |-> IF b[2] = "right" THEN r.x + r.width ELSE r.x,
         y1 |-> IF b[2] = "bottom" THEN r.y + r.height ELSE r.y,
         x2 |-> IF b[2] = "left" THEN r.x ELSE r.x + r.width,
         y2 |-> IF b[2] = "top" THEN r.y ELSE r.y + r.height] :
       b \in {c \in {"name", "qr", "message"} \X {"left", "right", "top", "bottom"} :
                 c[2] \in CfgGet(cfg, BorderSidesKey(c[1]), {})}}

\* the border lines generate_card strokes: c.line(x1, y1, x2, y2) for every
\* side listed for the name box, the QR section and the message box
PdfBorders(cfg, geo) ==
    {LET r == geo.rect[b[1]]
     IN [section |-> b[1], side |-> b[2],
         x1 |-> IF b[2] = "right" THEN r.x + r.width ELSE r.x,
         y1 |-> IF b[2] = "top" THEN r.y + r.height ELSE r.y,
         x2 |-> IF b[2] = "left" THEN r.x ELSE r.x + r.width,
         y2 |-> IF b[2] = "bottom" THEN r.y ELSE r.y + r.height] :
       b \in {c \in {"name", "qr", "message"} \X {"left", "right", "top", "bottom"} :
                 c[2] \in CfgGet(cfg, BorderSidesKey(c[1]), {})}}

\* generate_card of the vector generator: the two validations, then the try block
pdf_generate_card(cfg, name, image_ok, qr_ok) ==
    IF ~image_ok THEN [called |-> TRUE, ret |-> FALSE, why |-> "person_image"]
    ELSE IF ~qr_ok THEN [called |-> TRUE, ret |-> FALSE, why |-> "qr_code"]
    ELSE IF ~(PdfGeometryKeys(name, cfg) \subseteq DOMAIN cfg)
         THEN [called |-> TRUE, ret |-> FALSE, why |-> "exception"]
    ELSE [called |-> TRUE, ret |-> TRUE, why |-> "saved", geo |-> PdfGeometry(cfg, name),
          borders |-> PdfBorders(cfg, PdfGeometry(cfg, name))]

-----------------------------------------------------------------------------
(* PNGCardGenerator.generate_card (generate_png_cards.py): tier and geometry *)

\* int(val * self.scale_factor): val and the factor are integers here, so the
\* product is an integer and int() leaves it as it is
PngScale(val, factor) == val * factor

PngIsLongName(name, name_length_threshold) == Len(name) > name_length_threshold

\* y_photo .. y_bottom_box: the tops in PIL's top-down pixel coordinates
PngTops(top_padding, top_margin, photo_height, name_height, qr_height, gap_before_msg, message_height) ==
    LET y_photo == top_padding + top_margin
        y_name == y_photo + photo_height
        y_qr == y_name + name_height
        y_message == y_qr + qr_height + gap_before_msg
        y_bottom_box == y_message + message_height
    IN [photo |-> y_photo, name |-> y_name, qr |-> y_qr,
        message |-> y_message, bottom_box |-> y_bottom_box]

PngGeometryKeys(name, cfg) ==
    {"page_width_pt", "page_height_pt", "horizontal_padding_pt", "top_margin_pt",
     "photo_section_height_pt", "qr_section_height_pt", "gap_before_message_pt",
     "message_box_height_pt"}
    \cup (IF PngIsLongName(name, CfgGet(cfg, "name_length_threshold", 22))
          THEN {"name_box_height_pt_long", "name_font_size_pt_long"}
          ELSE {"name_box_height_pt_short", "name_font_size_pt_short"})

PngGeometry(cfg, factor, name) ==
    LET page_width == PngScale(cfg["page_width_pt"], factor)
        page_height == PngScale(cfg["page_height_pt"], factor)
        h_padding == PngScale(cfg["horizontal_padding_pt"], factor)
        top_padding == PngScale(CfgGet(cfg, "top_padding_pt", 0), factor)
        bottom_padding == PngScale(CfgGet(cfg, "bottom_padding_pt", 0), factor)
        top_margin == PngScale(cfg["top_margin_pt"], factor)
        content_width == page_width - (2 * h_padding)
        name_length_threshold == CfgGet(cfg, "name_length_threshold", 22)
        is_long_name == PngIsLongName(name, name_length_threshold)
        name_height == IF is_long_name
                       THEN PngScale(cfg["name_box_height_pt_long"], factor)
                       ELSE PngScale(cfg["name_box_height_pt_short"], factor)
        name_font_size == IF is_long_name
                          THEN PngScale(cfg["name_font_size_pt_long"], factor)
                          ELSE PngScale(cfg["name_font_size_pt_short"], factor)
        name_multiline == is_long_name
        photo_height == PngScale(cfg["photo_section_height_pt"], factor)
        qr_height == PngScale(cfg["qr_section_height_pt"], factor)
        gap_before_msg == PngScale(cfg["gap_before_message_pt"], factor)
        message_height == PngScale(cfg["message_box_height_pt"], factor)
        bottom_box_height == PngScale(CfgGet(cfg, "bottom_box_height_pt", 0), factor)
        y == PngTops(top_padding, top_margin, photo_height, name_height,
                     qr_height, gap_before_msg, message_height)
        name_h_margin == PngScale(CfgGet(cfg, "name_box_horizontal_margin_pt", 0), factor)
        bottom_h_margin == PngScale(CfgGet(cfg, "bottom_box_horizontal_margin_pt", 0), factor)
    IN [page_width |-> page_width,
        page_height |-> page_height,
        is_long_name |-> is_long_name,
        name_font_size |-> name_font_size,
        name_multiline |-> name_multiline,
        name_length_threshold |-> name_length_threshold,
        y_top |-> y,
        rect |->
          [photo |-> [x |-> h_padding, y |-> y.photo,
                      width |-> content_width, height |-> photo_height],
           name |-> [x |-> h_padding + name_h_margin, y |-> y.name,
                     width |-> content_width - (2 * name_h_margin), height |-> name_height],
           qr |-> [x |-> h_padding, y |-> y.qr,
                   width |-> content_width, height |-> qr_height],
           message |-> [x |-> h_padding, y |-> y.message,
                        width |-> content_width, height |-> message_height],
           bottom_box |-> [x |-> h_padding + bottom_h_margin, y |-> y.bottom_box,
                           width |-> content_width - (2 * bottom_h_margin),
                           height |-> bottom_box_height]]]

\* the border strips generate_card fills: draw.rectangle([x1, y1, x2, y2]) for
\* every side listed, border_width pixels into the section
PngBorders(cfg, factor, geo) ==
    {LET r == geo.rect[b[1]]
         border_width ==
             PngScale(CfgGet(cfg, CASE b[1] = "name" -> "name_box_border_width_pt"
                                    [] b[1] = "qr" -> "qr_section_border_width_pt"
                                    [] b[1] = "message" -> "message_box_border_width_pt", 2),
                      factor)
     IN [section |-> b[1], side |-> b[2],
         x1 |-> IF b[2] = "right" THEN r.x + r.width - border_width ELSE r.x,
         y1 |-> IF b[2] = "bottom" THEN r.y + r.height - border_width ELSE r.y,
         x2 |-> IF b[2] = "left" THEN r.x + border_width ELSE r.x + r.width,
         y2 |-> IF b[2] = "top" THEN r.y + border_width ELSE r.y + r.height] :
       b \in {c \in {"name", "qr", "message"} \X {"left", "right", "top", "bottom"} :
                 c[2] \in CfgGet(cfg, BorderSidesKey(c[1]), {})}}

png_generate_card(cfg, factor, name, image_ok, qr_ok) ==
    IF ~image_ok THEN [called |-> TRUE, ret |-> FALSE, why |-> "person_image"]
    ELSE IF ~qr_ok THEN [called |-> TRUE, ret |-> FALSE, why |-> "qr_code"]
    ELSE IF ~(PngGeometryKeys(name, cfg) \subseteq DOMAIN cfg)
         THEN [called |-> TRUE, ret |-> FALSE, why |-> "exception"]
    ELSE [called |-> TRUE, ret |-> TRUE, why |-> "saved",
          geo |-> PngGeometry(cfg, factor, name),
          borders |-> PngBorders(cfg, factor, PngGeometry(cfg, factor, name))]

-----------------------------------------------------------------------------
(* Image placement.  img is the <<width, height>> of the image file in       *)
(* pixels; Python's / on two ints and * of an int and a float are the float  *)
(* operations above, int() is FloatToInt.                                    *)

\* CardGenerator._draw_centered_image: what it hands to c.drawImage
draw_centered_image(img, x, y, width, height, max_width, max_height) ==
    LET img_width == img[1]
        img_height == img[2]
        scale_h == FloatDivInt(max_height, img_height)
        scale_w == FloatDivInt(max_width, img_width)
        scale == FloatMax(scale_w, scale_h)
        final_width == FloatMulInt(img_width, scale)
        final_height == FloatMulInt(img_height, scale)
        x_offset == FloatAddInt(x, FloatHalf(FloatSubFromInt(width, final_width)))
        y_offset == DyOfInt(y)
    IN [called |-> TRUE, by |-> "draw", ret |-> TRUE,
        x_offset |-> x_offset, y_offset |-> y_offset,
        final_width |-> final_width, final_height |-> final_height]

\* variant: the photo is centred vertically as well
paste_centered_image_middle(img, x, y, width, height) ==
    LET img_width == img[1]
        img_height == img[2]
        scale_h == FloatDivInt(height, img_height)
        scale_w == FloatDivInt(width, img_width)
        scale == FloatMax(scale_w, scale_h)
        final_width == FloatToInt(FloatMulInt(img_width, scale))
        final_height == FloatToInt(FloatMulInt(img_height, scale))
        x_offset == x + ((width - final_width) \div 2)
        y_offset == y + ((height - final_height) \div 2)
    IN [called |-> TRUE, by |-> "paste", ret |-> TRUE,
        x_offset |-> x_offset, y_offset |-> y_offset,
        final_width |-> final_width, final_height |-> final_height]

\* PNGCardGenerator._paste_centered_image: the size it resizes the image to and
\* where it pastes it
paste_centered_image(img, x, y, width, height) ==
    LET img_width == img[1]
        img_height == img[2]
        scale_h == FloatDivInt(height, img_height)
        scale_w == FloatDivInt(width, img_width)
        scale == FloatMax(scale_w, scale_h)
        final_width == FloatToInt(FloatMulInt(img_width, scale))
        final_height == FloatToInt(FloatMulInt(img_height, scale))
        x_offset == x + ((width - final_width) \div 2)
        y_offset == y
    IN [called |-> TRUE, by |-> "paste", ret |-> TRUE,
        x_offset |-> x_offset, y_offset |-> y_offset,
        final_width |-> final_width, final_height |-> final_height]

IntMin(a, b) == IF b < a THEN b ELSE a

\* PNGtoPDFConverter.convert_png_to_pdf: what it returns and, when it draws,
\* what it hands to c.drawImage.  valid is what _validate_image returns.
convert_png_to_pdf(cfg, valid, img) ==
    IF ~valid THEN [called |-> TRUE, by |-> "convert", ret |-> FALSE]
    ELSE IF ~({"page_width_pt", "page_height_pt"} \subseteq DOMAIN cfg)
         THEN [called |-> TRUE, by |-> "convert", ret |-> FALSE]
    ELSE
    LET page_width == cfg["page_width_pt"]
        page_height == cfg["page_height_pt"]
        top_pad == CfgGet(cfg, "top_padding_pt", 0)
        bottom_pad == CfgGet(cfg, "bottom_padding_pt", 0)
        left_pad == CfgGet(cfg, "left_padding_pt", 0)
        right_pad == CfgGet(cfg, "right_padding_pt", 0)
        available_width == page_width - left_pad - right_pad
        available_height == page_height - top_pad - bottom_pad
        img_width_px == img[1]
        img_height_px == img[2]
        fit_to_page == CfgGet(cfg, "fit_to_page", TRUE)
        center_image == CfgGet(cfg, "center_image", TRUE)
        scale_w == FloatDivInt(available_width, img_width_px)
        scale_h == FloatDivInt(available_height, img_height_px)
        scale == FloatMin(scale_w, scale_h)
        img_width_pt == IF fit_to_page THEN FloatMulInt(img_width_px, scale)
                        ELSE DyOfInt(IntMin(img_width_px, available_width))
        img_height_pt == IF fit_to_page THEN FloatMulInt(img_height_px, scale)
                         ELSE DyOfInt(IntMin(img_height_px, available_height))
        x == IF center_image
             THEN FloatAddInt(left_pad,
                              FloatHalf(FloatSubFromInt(available_width, img_width_pt)))
             ELSE DyOfInt(left_pad)
        y == IF center_image
             THEN FloatAddInt(bottom_pad,
                              FloatHalf(FloatSubFromInt(available_height, img_height_pt)))
             ELSE DyOfInt(bottom_pad)
    IN [called |-> TRUE, by |-> "convert", ret |-> TRUE,
        fit_to_page |-> fit_to_page, center_image |-> center_image,
        page_width |-> page_width, page_height |-> page_height,
        top_pad |-> top_pad, bottom_pad |-> bottom_pad,
        left_pad |-> left_pad, right_pad |-> right_pad,
        x |-> x, y |-> y, width |-> img_width_pt, height |-> img_height_pt]

-----------------------------------------------------------------------------
(* Centred text.  The font's metrics are those of a font whose every         *)
(* character is char_width wide at font size 1 and whose width grows in      *)
(* proportion to the font size; the raster text is font_size high.           *)

\* c.stringWidth(text, font, font_size); bbox[2] - bbox[0] of draw.textbbox
StringWidth(txt, font_size, char_width) == Len(txt) * char_width * font_size

\* variant: the lines follow each other at the font size, with no leading
LineHeightFactorOne == FloatDivInt(5, 5)

\* the float 1.2
LineHeightFactor == FloatDivInt(6, 5)

\* a fitter that rounds the scaled size up
ShrunkFontSizeCeil(font_size, max_width, text_width) ==
    FloatToInt(FloatMulInt(font_size, FloatDivInt(max_width, text_width))) + 1

\* scale_factor = max_width / text_width; int(font_size * scale_factor)
ShrunkFontSize(font_size, max_width, text_width) ==
    FloatToInt(FloatMulInt(font_size, FloatDivInt(max_width, text_width)))

\* CardGenerator._draw_centered_text: the font size it sets and where it draws
pdf_draw_centered_text(a) ==
    IF ~a.allow_multiline \/ a.max_lines = 1
    THEN LET text_width == StringWidth(a.text, a.font_size, a.char_width)
             max_width == a.width - (2 * a.text_padding)
             shrink == text_width > max_width
             font_size == IF shrink THEN ShrunkFontSize(a.font_size, max_width, text_width)
                          ELSE a.font_size
             new_width == StringWidth(a.text, font_size, a.char_width)
         IN [called |-> TRUE, by |-> "pdf", mode |-> "single",
             measured |-> text_width, max_width |-> max_width,
             font_size |-> font_size, text_width |-> new_width,
             text_x |-> FloatAddInt(a.x, FloatDivInt(a.width - new_width, 2)),
             text_y |-> FloatAddInt(a.y, FloatDivInt(a.height - font_size, 2))]
    ELSE LET lns == optimal_line_break(a.text, a.char_threshold, a.max_lines)
             line_height == FloatMulInt(a.font_size, LineHeightFactor)
             total_height == FloatMulInt(Len(lns), line_height)
             start_y == FloatAdd(FloatAddInt(a.y, FloatHalf(FloatSubFromInt(a.height, total_height))),
                                 FloatMulInt(Len(lns) - 1, line_height))
         IN [called |-> TRUE, by |-> "pdf", mode |-> "multi", lines |-> lns,
             font_size |-> a.font_size, line_height |-> line_height,
             text_x |-> [i \in 1 .. Len(lns) |->
                            FloatAddInt(a.x, FloatDivInt(a.width - StringWidth(lns[i], a.font_size, a.char_width), 2))],
             text_y |-> [i \in 1 .. Len(lns) |->
                            FloatAdd(start_y, DyNeg(FloatMulInt(i - 1, line_height)))]]

\* PNGCardGenerator._draw_centered_text
png_draw_centered_text(a) ==
    IF ~a.allow_multiline \/ a.max_lines = 1
    THEN LET text_width == StringWidth(a.text, a.font_size, a.char_width)
             max_width == a.width - (2 * a.text_padding)
             shrink == text_width > max_width
             new_font_size == IF shrink THEN ShrunkFontSize(a.font_size, max_width, text_width)
                              ELSE a.font_size
             new_width == StringWidth(a.text, new_font_size, a.char_width)
             text_height == new_font_size
         IN [called |-> TRUE, by |-> "png", mode |-> "single",
             measured |-> text_width, max_width |-> max_width,
             font_size |-> new_font_size, text_width |-> new_width,
             text_x |-> a.x + ((a.width - new_width) \div 2),
             text_y |-> a.y + ((a.height - text_height) \div 2)]
    ELSE LET lns == png_optimal_line_break(a.text, a.char_threshold, a.max_lines)
             line_height == FloatToInt(FloatMulInt(a.font_size, LineHeightFactor))
             total_height == Len(lns) * line_height
             start_y == a.y + ((a.height - total_height) \div 2)
         IN [called |-> TRUE, by |-> "png", mode |-> "multi", lines |-> lns,
             font_size |-> a.font_size, line_height |-> line_height,
             text_x |-> [i \in 1 .. Len(lns) |->
                            a.x + ((a.width - StringWidth(lns[i], a.font_size, a.char_width)) \div 2)],
             text_y |-> [i \in 1 .. Len(lns) |-> start_y + ((i - 1) * line_height)]]

-----------------------------------------------------------------------------
(* The batch run: main, generate_all_cards and generate_card step by step.   *)
(* Strings are sequences of characters; None is a value of its own.          *)

UpperLetters ==
    <<"A","B","C","D","E","F","G","H","I","J","K","L","M",
      "N","O","P","Q","R","S","T","U","V","W","X","Y","Z">>
LowerLetters ==
    <<"a","b","c","d","e","f","g","h","i","j","k","l","m",
      "n","o","p","q","r","s","t","u","v","w","x","y","z">>
Digits == {"0","1","2","3","4","5","6","7","8","9"}

\* c.isalnum() and c.lower(), on ASCII
IsAlnum(c) ==
    \/ \E i \in 1 .. Len(UpperLetters) : c = UpperLetters[i] \/ c = LowerLetters[i]
    \/ c \in Digits
LowerChar(c) ==
    IF \E i \in 1 .. Len(UpperLetters) : c = UpperLetters[i]
    THEN LowerLetters[CHOOSE i \in 1 .. Len(UpperLetters) : c = UpperLetters[i]]
    ELSE c

\* str.strip(): leading and trailing blanks removed
Strip(str) ==
    LET inked == {i \in 1 .. Len(str) : str[i] # " "}
    IN IF inked = {} THEN <<>>
       ELSE SubSeq(str, CHOOSE i \in inked : \A j \in inked : i <= j,
                        CHOOSE i \in inked : \A j \in inked : j <= i)

\* variant: a file name that keeps the case of the letters
sanitize_filename_keep_case(name) ==
    LET safe_name == [i \in 1 .. Len(name) |->
                        IF IsAlnum(name[i]) \/ name[i] \in {" ", "-", "_"}
                        THEN name[i] ELSE "_"]
        stripped == Strip(safe_name)
    IN [i \in 1 .. Len(stripped) |-> IF stripped[i] = " " THEN "_" ELSE stripped[i]]

\* _sanitize_filename, the same in both generators
sanitize_filename(name) ==
    LET safe_name == [i \in 1 .. Len(name) |->
                        IF IsAlnum(name[i]) \/ name[i] \in {" ", "-", "_"}
                        THEN name[i] ELSE "_"]
        stripped == Strip(safe_name)
    IN [i \in 1 .. Len(stripped) |->
           IF stripped[i] = " " THEN "_" ELSE LowerChar(stripped[i])]

\* a CSV field as csv.DictReader delivers it: a string, or None when the row is
\* shorter than the header
NoneValue == [none |-> TRUE]
Str(str) == [none |-> FALSE, s |-> str]

\* row.get(key, ''): the field, or '' when the header has no such column
RowGet(row, key) == IF key \in DOMAIN row THEN row[key] ELSE Str(<<>>)

\* image files next to the script: a photo, a file that does not exist, a
\* file that is not an image, and an image that verifies but has no pixels
PhotoOk == <<"p">>
PhotoMissing == <<"m">>
PhotoUnreadable == <<"u">>
PhotoZero == <<"z">>

\* _validate_image: os.path.exists, then Image.open(...).verify()
validate_image(ref) == ref \in {PhotoOk, PhotoZero}

\* the keys of a complete config.json beyond the geometry
RunExtraKeys ==
    {"input_csv", "output_directory", "qr_code_path", "qr_code_size_pt",
     "background_color", "message_text", "message_font_size_pt"}

RunFullConfig ==
    LET geo == FullConfig(0, 0, 1, 22, 200, 20, 0)
    IN [k \in (DOMAIN geo) \cup RunExtraKeys |->
           IF k \in DOMAIN geo THEN geo[k]
           ELSE IF k = "qr_code_size_pt" THEN 80
           ELSE IF k = "message_font_size_pt" THEN 12
           ELSE k]

\* keys left out of the configuration file, one at a time
RunAbsentSets ==
    {{}, {"page_width_pt"}, {"top_margin_pt"}, {"qr_code_size_pt"}, {"message_text"},
     {"qr_code_path"}, {"output_directory"}, {"input_csv"}, {"background_color"},
     {"bottom_box_height_pt"}}

RunConfigs == {WithoutKeys(RunFullConfig, absent) : absent \in RunAbsentSets}

\* the keys generate_card reads with cfg[...] before it creates the canvas, and
\* the ones it reads while it paints
LayoutKeys(backend, name, cfg) ==
    IF backend = "pdf" THEN PdfGeometryKeys(name, cfg) ELSE PngGeometryKeys(name, cfg)
PaintKeys(backend) ==
    IF backend = "pdf"
    THEN {"background_color", "qr_code_size_pt", "message_text", "message_font_size_pt"}
    ELSE {"qr_code_size_pt", "message_text", "message_font_size_pt"}

\* every key the generator reads by subscript, whatever the name
RequiredKeys(backend, cfg) ==
    LayoutKeys(backend, Bo, cfg) \cup LayoutKeys(backend, Name23, cfg)
    \cup PaintKeys(backend) \cup {"qr_code_path", "output_directory", "input_csv"}

\* a file name that is made new when the program is started again
OutputFilenameFresh(backend, name) ==
    sanitize_filename(name) \o (IF earlier_run = <<>> THEN <<>> ELSE <<"_", "2">>)
                           \o (IF backend = "pdf" THEN <<".", "p", "d", "f">>
                               ELSE <<".", "p", "n", "g">>)

\* f"{safe_name}.pdf" and f"{safe_name}.png"
OutputFilename(backend, name) ==
    sanitize_filename(name) \o (IF backend = "pdf" THEN <<".", "p", "d", "f">>
                                ELSE <<".", "p", "n", "g">>)

-----------------------------------------------------------------------------
(* The line breaker as a state machine: one call of either generator *)

NotCalled == [called |-> FALSE]

\* the variables of generate_card while another operation runs
CardIdle ==
    /\ config = <<>>
    /\ scale_factor = 4
    /\ person_name = <<>>
    /\ person_image_ok = FALSE
    /\ qr_code_ok = FALSE
    /\ pdf_card = NotCalled
    /\ png_card = NotCalled
    /\ calls = <<>>

\* the variables of a run while another operation runs
RunIdle ==
    /\ run_backend = "pdf"
    /\ run_config = <<>>
    /\ csv_rows = <<>>
    /\ qr_file_ok = FALSE
    /\ disk = {}
    /\ run_pc = "idle"
    /\ idx = 0
    /\ success_count = 0
    /\ fail_count = 0
    /\ cur = <<>>
    /\ canvas = "none"
    /\ run_log = <<>>
    /\ exit_status = "none"
    /\ earlier_run = <<>>
    /\ dir_writable = FALSE
    /\ written = {}
    /\ layouts = <<>>
    /\ paths = {}

\* the variables of add_border_to_subject while another operation runs
BorderIdle ==
    /\ border_call = <<>>
    /\ border_saved = NotCalled

\* the variables of _draw_centered_text while another operation runs
TextIdle ==
    /\ text_call = <<>>
    /\ text_drawn = NotCalled

\* the variables of image placement while another operation runs
ImageIdle ==
    /\ image_size = <<1, 1>>
    /\ box = [x |-> 0, y |-> 0, width |-> 1, height |-> 1]
    /\ convert_config = <<>>
    /\ png_valid = FALSE
    /\ placed = NotCalled

\* the variables of the line breaker while another operation runs
LbIdle ==
    /\ text = <<>>
    /\ char_threshold = 0
    /\ max_lines = 2
    /\ tokens_out = <<>>
    /\ lines = <<>>
    /\ lb_pc = "idle"

LbInit ==
    /\ text \in Texts
    /\ char_threshold \in Thresholds
    /\ max_lines \in MaxLinesSet
    /\ tokens_out = <<>>
    /\ lines = <<>>
    /\ lb_pc = "call"
    /\ CardIdle
    /\ ImageIdle
    /\ TextIdle
    /\ RunIdle
    /\ BorderIdle

PdfLineBreak ==
    /\ lb_pc = "call"
    /\ tokens_out' = Tokenize(text)
    /\ lines' = optimal_line_break(text, char_threshold, max_lines)
    /\ lb_pc' = "pdf_returned"
    /\ UNCHANGED <<text, char_threshold, max_lines, card_vars, image_vars, text_vars, run_vars, border_vars>>

PngLineBreak ==
    /\ lb_pc = "call"
    /\ tokens_out' = PngTokenize(text)
    /\ lines' = png_optimal_line_break(text, char_threshold, max_lines)
    /\ lb_pc' = "png_returned"
    /\ UNCHANGED <<text, char_threshold, max_lines, card_vars, image_vars, text_vars, run_vars, border_vars>>

LbNext == PdfLineBreak \/ PngLineBreak

SpecLineBreak == LbInit /\ [][LbNext]_vars

-----------------------------------------------------------------------------
(* generate_card as a state machine: one configuration and one record, handed to
   the vector and to the raster generator, in either order *)

ScaleFactors == {2, 4}

CardInit ==
    /\ config \in Configs
    /\ scale_factor \in ScaleFactors
    /\ person_name \in Names
    /\ \E found \in {<<TRUE, TRUE>>, <<FALSE, TRUE>>, <<TRUE, FALSE>>} :
          person_image_ok = found[1] /\ qr_code_ok = found[2]
    /\ pdf_card = NotCalled
    /\ png_card = NotCalled
    /\ calls = <<>>
    /\ LbIdle
    /\ ImageIdle
    /\ TextIdle
    /\ RunIdle
    /\ BorderIdle

PdfGenerateCard ==
    /\ ~pdf_card.called
    /\ pdf_card' = pdf_generate_card(config, person_name, person_image_ok, qr_code_ok)
    /\ UNCHANGED <<config, scale_factor, person_name, person_image_ok, qr_code_ok,
                   png_card, calls, lb_vars, image_vars, text_vars, run_vars, border_vars>>

PngGenerateCard ==
    /\ ~png_card.called
    /\ png_card' = png_generate_card(config, scale_factor, person_name,
                                     person_image_ok, qr_code_ok)
    /\ UNCHANGED <<config, scale_factor, person_name, person_image_ok, qr_code_ok,
                   pdf_card, calls, lb_vars, image_vars, text_vars, run_vars, border_vars>>

Next == PdfGenerateCard \/ PngGenerateCard

Init == CardInit

Spec == Init /\ [][Next]_vars

-----------------------------------------------------------------------------
(* Fill placement as a state machine: one image file and one box, placed by  *)
(* the vector or by the raster generator                                     *)

\* pixel sizes of image files: landscape and portrait photos, squares, and the
\* raster cards of a 216 x 504 pt page at scale 2 and 4
ImageSizes ==
    {<<200, 100>>, <<100, 200>>, <<700, 1000>>, <<350, 450>>, <<600, 800>>,
     <<800, 600>>, <<1000, 1000>>, <<49, 49>>, <<97, 49>>, <<432, 1008>>,
     <<864, 2016>>}

\* a 100 x 50 box at the origin, and the photo section of a 216 x 504 pt page
\* with 18 pt horizontal padding and a 200 pt photo section, in points and in
\* pixels at scale 2 and 4
Boxes ==
    {[x |-> 0, y |-> 0, width |-> 100, height |-> 50],
     [x |-> 18, y |-> 304, width |-> 180, height |-> 200],
     [x |-> 36, y |-> 0, width |-> 360, height |-> 400],
     [x |-> 72, y |-> 0, width |-> 720, height |-> 800]}

FillInit ==
    /\ image_size \in ImageSizes
    /\ box \in Boxes
    /\ convert_config = <<>>
    /\ png_valid = FALSE
    /\ placed = NotCalled
    /\ LbIdle
    /\ CardIdle
    /\ TextIdle
    /\ RunIdle
    /\ BorderIdle

DrawCenteredImage ==
    /\ ~placed.called
    /\ placed' = draw_centered_image(image_size, box.x, box.y, box.width, box.height,
                                     box.width, box.height)
    /\ UNCHANGED <<image_size, box, convert_config, png_valid, lb_vars, card_vars, text_vars, run_vars, border_vars>>

PasteCenteredImage ==
    /\ ~placed.called
    /\ placed' = paste_centered_image(image_size, box.x, box.y, box.width, box.height)
    /\ UNCHANGED <<image_size, box, convert_config, png_valid, lb_vars, card_vars, text_vars, run_vars, border_vars>>

FillNext == DrawCenteredImage \/ PasteCenteredImage

SpecFill == FillInit /\ [][FillNext]_vars

-----------------------------------------------------------------------------
(* convert_png_to_pdf as a state machine: one configuration, one file *)

\* <<top, bottom, left, right>> padding, in points
ConvertPads == {<<0, 0, 0, 0>>, <<10, 10, 10, 10>>, <<20, 0, 18, 6>>}

ConvertFullConfig(pads, fit, center) ==
    [k \in {"page_width_pt", "page_height_pt", "top_padding_pt", "bottom_padding_pt",
            "left_padding_pt", "right_padding_pt", "fit_to_page", "center_image"} |->
        CASE k = "page_width_pt" -> 216
          [] k = "page_height_pt" -> 504
          [] k = "top_padding_pt" -> pads[1]
          [] k = "bottom_padding_pt" -> pads[2]
          [] k = "left_padding_pt" -> pads[3]
          [] k = "right_padding_pt" -> pads[4]
          [] k = "fit_to_page" -> fit
          [] k = "center_image" -> center]

\* keys a configuration file may leave out
ConvertAbsentSets ==
    {{}, {"fit_to_page", "center_image"},
     {"top_padding_pt", "bottom_padding_pt", "left_padding_pt", "right_padding_pt"},
     {"page_height_pt"}}

ConvertConfigs ==
    {WithoutKeys(ConvertFullConfig(pads, fit, center), absent) :
        pads \in ConvertPads, fit \in BOOLEAN, center \in BOOLEAN,
        absent \in ConvertAbsentSets}

ConvertInit ==
    /\ image_size \in ImageSizes
    /\ box = [x |-> 0, y |-> 0, width |-> 1, height |-> 1]
    /\ convert_config \in ConvertConfigs
    /\ png_valid \in BOOLEAN
    /\ placed = NotCalled
    /\ LbIdle
    /\ CardIdle
    /\ TextIdle
    /\ RunIdle
    /\ BorderIdle

ConvertPngToPdf ==
    /\ ~placed.called
    /\ placed' = convert_png_to_pdf(convert_config, png_valid, image_size)
    /\ UNCHANGED <<image_size, box, convert_config, png_valid, lb_vars, card_vars, text_vars, run_vars, border_vars>>

ConvertNext == ConvertPngToPdf

SpecConvert == ConvertInit /\ [][ConvertNext]_vars

-----------------------------------------------------------------------------
(* _draw_centered_text as a state machine: one text and one box, drawn by    *)
(* the vector or by the raster generator                                     *)

TextCalls ==
    [text : {Bo, Name22, DrEvelyn},
     char_width : {1, 5},
     x : {18}, y : {100},
     width : {10, 20, 170, 180, 350}, height : {30},
     font_size : {14, 18, 22},
     text_padding : {0, 10},
     allow_multiline : BOOLEAN,
     max_lines : {1, 2},
     char_threshold : {22}]

TextInit ==
    /\ text_call \in TextCalls
    /\ text_drawn = NotCalled
    /\ LbIdle
    /\ CardIdle
    /\ ImageIdle
    /\ RunIdle
    /\ BorderIdle

PdfDrawCenteredText ==
    /\ ~text_drawn.called
    /\ text_drawn' = pdf_draw_centered_text(text_call)
    /\ UNCHANGED <<text_call, lb_vars, card_vars, image_vars, run_vars, border_vars>>

PngDrawCenteredText ==
    /\ ~text_drawn.called
    /\ text_drawn' = png_draw_centered_text(text_call)
    /\ UNCHANGED <<text_call, lb_vars, card_vars, image_vars, run_vars, border_vars>>

TextNext == PdfDrawCenteredText \/ PngDrawCenteredText

SpecText == TextInit /\ [][TextNext]_vars

-----------------------------------------------------------------------------
(* A run of main as a state machine.  generate_card is taken step by step:   *)
(* the two validations, the layout lookups, the canvas, the painting, the    *)
(* save.  A step that ends generate_card also does the caller's counting.    *)

\* largest number of data rows of the CSV file
MaxRows == 2

\* the rows of a CSV file whose header is name,image
FullRows ==
    {[name |-> Str(Bo), image |-> Str(PhotoOk)],
     [name |-> Str(<<"b", "o">>), image |-> Str(<<" ", "p", " ">>)],
     [name |-> Str(AspaceB), image |-> Str(PhotoOk)],
     [name |-> Str(<<"a", "_", "b">>), image |-> Str(PhotoOk)],
     [name |-> Str(AspaceB), image |-> Str(PhotoZero)],
     [name |-> Str(AspaceB), image |-> Str(PhotoMissing)],
     [name |-> Str(AspaceB), image |-> Str(PhotoUnreadable)],
     [name |-> Str(Name23), image |-> Str(PhotoOk)],
     [name |-> Str(<<" ">>), image |-> Str(PhotoOk)],
     [name |-> Str(Bo), image |-> Str(<<>>)],
     [name |-> Str(Bo), image |-> NoneValue]}

RECURSIVE RowListsUpTo(_)
RowListsUpTo(n) ==
    IF n = 0 THEN {<<>>}
    ELSE LET shorter == RowListsUpTo(n - 1)
         IN shorter \cup {Append(l, r) : l \in {m \in shorter : Len(m) = n - 1},
                                         r \in FullRows}

\* the columns the header of the CSV file may have
Headers == {{"name", "image"}, {"name"}}

RunInit ==
    /\ run_backend \in {"pdf", "png"}
    /\ run_config \in RunConfigs
    /\ \E l \in RowListsUpTo(MaxRows), header \in Headers :
          csv_rows = [i \in 1 .. Len(l) |-> [k \in header |-> l[i][k]]]
    /\ qr_file_ok \in BOOLEAN
    /\ disk = {}
    /\ run_pc = "main"
    /\ idx = 0
    /\ success_count = 0
    /\ fail_count = 0
    /\ cur = <<>>
    /\ canvas = "none"
    /\ run_log = <<>>
    /\ exit_status = "none"
    /\ earlier_run = <<>>
    /\ dir_writable \in BOOLEAN
    /\ written = {}
    /\ layouts = <<>>
    /\ paths = {}
    /\ LbIdle
    /\ CardIdle
    /\ ImageIdle
    /\ TextIdle
    /\ BorderIdle

RunFrame == UNCHANGED <<run_backend, run_config, csv_rows, qr_file_ok, dir_writable,
                        lb_vars, card_vars, image_vars, text_vars, border_vars>>

Logged(event) == Append(run_log, <<idx, event>>)

\* an exception that nothing catches: traceback, exit status 1
Abort(event) ==
    /\ run_pc' = "aborted"
    /\ exit_status' = "1"
    /\ run_log' = Logged(event)
    /\ UNCHANGED <<idx, success_count, fail_count, cur, canvas, disk, written, layouts,
                   earlier_run, paths>>

\* variant: a caller that goes on without counting the failure
ReturnFalseUncounted(event) ==
    /\ run_pc' = "row"
    /\ idx' = idx + 1
    /\ run_log' = Append(Logged(event), <<idx, "return_false">>)
    /\ canvas' = IF canvas = "none" THEN "none" ELSE "abandoned"
    /\ cur' = <<>>
    /\ UNCHANGED <<success_count, fail_count, disk, exit_status, written, layouts,
                   earlier_run, paths>>

\* generate_card returns False: the caller counts a failure and goes on; a
\* canvas the call had created is dropped as it is, neither saved nor closed
ReturnFalse(event) ==
    /\ run_pc' = "row"
    /\ idx' = idx + 1
    /\ fail_count' = fail_count + 1
    /\ run_log' = Append(Logged(event), <<idx, "return_false">>)
    /\ canvas' = IF canvas = "none" THEN "none" ELSE "abandoned"
    /\ cur' = <<>>
    /\ UNCHANGED <<success_count, disk, exit_status, written, layouts, earlier_run, paths>>

\* the try block without its except clause: the exception leaves generate_card
Uncaught(event) == Abort(event)

\* except Exception in generate_card: the traceback is printed, return False
Caught(event) == ReturnFalse(event)

\* generate_all_cards up to its loop: the output directory and the CSV file
RunStart ==
    /\ run_pc = "main"
    /\ IF "output_directory" \notin DOMAIN run_config
       THEN Abort("KeyError output_directory")
       ELSE IF "input_csv" \notin DOMAIN run_config
       THEN Abort("KeyError input_csv")
       ELSE /\ run_pc' = "row"
            /\ idx' = 1
            /\ success_count' = 0
            /\ fail_count' = 0
            /\ run_log' = <<>>
            /\ UNCHANGED <<cur, canvas, disk, exit_status, written, layouts,
                           earlier_run, paths>>
    /\ RunFrame

\* the head of the loop body: the two fields, the skip, the output path
NextRow ==
    /\ run_pc = "row"
    /\ idx <= Len(csv_rows)
    /\ LET row == csv_rows[idx]
           name_field == RowGet(row, "name")
           image_field == RowGet(row, "image")
       IN IF name_field.none \/ image_field.none
          THEN Abort("AttributeError strip")
          ELSE LET the_name == Strip(name_field.s)
                   the_image == Strip(image_field.s)
               IN IF the_name = <<>> \/ the_image = <<>>
                  THEN /\ run_pc' = "row"
                       /\ idx' = idx + 1
                       /\ fail_count' = fail_count + 1
                       /\ run_log' = Logged("skip")
                       /\ UNCHANGED <<success_count, cur, canvas, disk, exit_status,
                                      written, layouts, earlier_run, paths>>
                  ELSE /\ run_pc' = "validate_person"
                       /\ cur' = [person_name |-> the_name,
                                  person_image |-> the_image,
                                  output_path |-> OutputFilename(run_backend, the_name)]
                       /\ paths' = paths \cup
                                      {<<the_name, OutputFilename(run_backend, the_name)>>}
                       /\ run_log' = Logged("call")
                       /\ canvas' = "none"
                       /\ UNCHANGED <<idx, success_count, fail_count, disk,
                                      exit_status, written, layouts, earlier_run>>
    /\ RunFrame

\* generate_card, first check: _validate_image(full_image_path)
ValidatePerson ==
    /\ run_pc = "validate_person"
    /\ IF ~validate_image(cur.person_image)
       THEN ReturnFalse("invalid person image")
       ELSE /\ run_pc' = "validate_qr"
            /\ run_log' = Logged("person image valid")
            /\ UNCHANGED <<idx, success_count, fail_count, cur, canvas, disk,
                           exit_status, written, layouts, earlier_run, paths>>
    /\ RunFrame

\* generate_card, second check: self.config['qr_code_path'] is read outside the
\* try block, then _validate_image(qr_code_path)
ValidateQr ==
    /\ run_pc = "validate_qr"
    /\ IF "qr_code_path" \notin DOMAIN run_config
       THEN Abort("KeyError qr_code_path")
       ELSE IF ~qr_file_ok
       THEN ReturnFalse("invalid qr image")
       ELSE /\ run_pc' = "layout"
            /\ run_log' = Logged("qr image valid")
            /\ UNCHANGED <<idx, success_count, fail_count, cur, canvas, disk,
                           exit_status, written, layouts, earlier_run, paths>>
    /\ RunFrame

\* the geometry one call of generate_card works out from cfg and person_name
LayoutOf(backend, cfg, name) ==
    IF backend = "pdf" THEN PdfGeometry(cfg, name) ELSE PngGeometry(cfg, 4, name)

\* generate_card, the head of the try block: the cfg[...] lookups and the
\* positions; a missing key raises KeyError, which the except clause catches
Layout ==
    /\ run_pc = "layout"
    /\ IF ~(LayoutKeys(run_backend, cur.person_name, run_config) \subseteq DOMAIN run_config)
       THEN Caught("KeyError layout")
       ELSE /\ run_pc' = "canvas"
            /\ cur' = [person_name |-> cur.person_name,
                       person_image |-> cur.person_image,
                       output_path |-> cur.output_path,
                       geo |-> LayoutOf(run_backend, run_config, cur.person_name)]
            /\ run_log' = Logged("layout")
            /\ UNCHANGED <<idx, success_count, fail_count, canvas, disk,
                           exit_status, written, layouts, earlier_run, paths>>
    /\ RunFrame

\* a canvas that opens its output file as soon as it is created
CanvasFilesOpened(files, path) == files \cup {path}

\* the files of the output directory once the canvas exists: canvas.Canvas
\* keeps the file name for save(), Image.new makes an image in memory
CanvasFiles(files, path) == files

\* canvas.Canvas(output_path, ...) and Image.new(...)
CreateCanvas ==
    /\ run_pc = "canvas"
    /\ run_pc' = "paint"
    /\ canvas' = "open"
    /\ disk' = CanvasFiles(disk, cur.output_path)
    /\ run_log' = Logged("canvas")
    /\ UNCHANGED <<idx, success_count, fail_count, cur, exit_status, written,
                   layouts, earlier_run, paths>>
    /\ RunFrame

\* the first exception the paint steps raise, in the order of the code
PaintFailure(backend, cfg, image) ==
    IF backend = "pdf" /\ "background_color" \notin DOMAIN cfg
    THEN "KeyError background_color"
    ELSE IF image = PhotoZero THEN "ZeroDivisionError"
    ELSE IF "qr_code_size_pt" \notin DOMAIN cfg THEN "KeyError qr_code_size_pt"
    ELSE IF backend = "pdf" /\ "message_text" \notin DOMAIN cfg
    THEN "KeyError message_text"
    ELSE IF "message_font_size_pt" \notin DOMAIN cfg THEN "KeyError message_font_size_pt"
    ELSE IF "message_text" \notin DOMAIN cfg THEN "KeyError message_text"
    ELSE "none"

\* the lines _draw_centered_text draws for the name
NameLines(backend, cfg, name, geo) ==
    LET mx == CfgGet(cfg, "name_max_lines", 2)
    IN IF ~geo.name_multiline \/ mx = 1 THEN <<name>>
       ELSE IF backend = "pdf"
       THEN optimal_line_break(name, geo.name_length_threshold, mx)
       ELSE png_optimal_line_break(name, geo.name_length_threshold, mx)

\* generate_card, the paint steps between the canvas and the save
Paint ==
    /\ run_pc = "paint"
    /\ LET failure == PaintFailure(run_backend, run_config, cur.person_image)
       IN IF failure # "none"
          THEN Caught(failure)
          ELSE /\ run_pc' = "save"
               /\ canvas' = "painted"
               /\ layouts' = Append(layouts,
                                    [name |-> cur.person_name, geo |-> cur.geo,
                                     lines |-> NameLines(run_backend, run_config,
                                                         cur.person_name, cur.geo)])
               /\ run_log' = Logged("painted")
               /\ UNCHANGED <<idx, success_count, fail_count, cur, disk, exit_status,
                              written, earlier_run, paths>>
    /\ RunFrame

\* c.save() and canvas.save(output_path, 'PNG', optimize=True), then return
\* True and the caller's success_count += 1; a directory that takes no files
\* makes the save raise OSError before anything is written
Save ==
    /\ run_pc = "save"
    /\ IF ~dir_writable
       THEN Caught("OSError save")
       ELSE /\ run_pc' = "row"
            /\ idx' = idx + 1
            /\ success_count' = success_count + 1
            /\ disk' = disk \cup {cur.output_path}
            /\ written' = written \cup {cur.output_path}
            /\ run_log' = Append(Logged("saved"), <<idx, "return_true">>)
            /\ canvas' = "saved"
            /\ cur' = <<>>
            /\ UNCHANGED <<fail_count, exit_status, layouts, earlier_run, paths>>
    /\ RunFrame

\* after the loop: the summary is printed, main returns, exit status 0
Summary ==
    /\ run_pc = "row"
    /\ idx > Len(csv_rows)
    /\ run_pc' = "done"
    /\ exit_status' = "0"
    /\ run_log' = Logged("summary")
    /\ UNCHANGED <<idx, success_count, fail_count, cur, canvas, disk, written, layouts,
                   earlier_run, paths>>
    /\ RunFrame

\* the program is started a second time on the same files
RunAgain ==
    /\ run_pc \in {"done", "aborted"}
    /\ earlier_run = <<>>
    /\ earlier_run' = [written |-> written, disk |-> disk, run_log |-> run_log,
                       layouts |-> layouts, paths |-> paths, exit_status |-> exit_status,
                       success_count |-> success_count, fail_count |-> fail_count]
    /\ run_pc' = "main"
    /\ idx' = 0
    /\ success_count' = 0
    /\ fail_count' = 0
    /\ cur' = <<>>
    /\ canvas' = "none"
    /\ run_log' = <<>>
    /\ exit_status' = "none"
    /\ written' = {}
    /\ layouts' = <<>>
    /\ paths' = {}
    /\ UNCHANGED disk
    /\ RunFrame

RunNext ==
    \/ RunStart
    \/ NextRow
    \/ ValidatePerson
    \/ ValidateQr
    \/ Layout
    \/ CreateCanvas
    \/ Paint
    \/ Save
    \/ Summary
    \/ RunAgain

SpecRun == RunInit /\ [][RunNext]_vars

-----------------------------------------------------------------------------
(* Two calls for two records on one generator object, their steps interleaved:
   the layout computations of generate_card, then _optimal_line_break on the
   name.  Every intermediate value is a local variable of its call. *)

CallsInit ==
    /\ config \in {c \in Configs : /\ "gap_before_message_pt" \in DOMAIN c
                                   /\ c["photo_section_height_pt"] = 200
                                   /\ CfgGet(c, "bottom_box_height_pt", 0) = 0
                                   /\ CfgGet(c, "name_box_horizontal_margin_pt", 0) = 0}
    /\ scale_factor = 4
    /\ person_name = <<>>
    /\ person_image_ok = FALSE
    /\ qr_code_ok = FALSE
    /\ pdf_card = NotCalled
    /\ png_card = NotCalled
    /\ \E backend \in {"pdf", "png"}, first \in Names, second \in Names :
          calls = [c \in {1, 2} |->
                      [backend |-> backend, name |-> IF c = 1 THEN first ELSE second,
                       pc |-> "start"]]
    /\ LbIdle
    /\ ImageIdle
    /\ TextIdle
    /\ RunIdle
    /\ BorderIdle

\* a layout that keeps the font size it chose in the configuration
ConfigAfterLayoutStored(cfg, geo) ==
    [k \in DOMAIN cfg |-> IF k = "name_font_size_pt_short" THEN geo.name_font_size
                          ELSE cfg[k]]

\* self.config once the layout is computed: cfg is only read
ConfigAfterLayout(cfg, geo) == cfg

CallLayout(c) ==
    /\ calls[c].pc = "start"
    /\ LET geo == LayoutOf(calls[c].backend, config, calls[c].name)
       IN /\ calls' = [calls EXCEPT ![c] = [backend |-> calls[c].backend,
                                           name |-> calls[c].name,
                                           pc |-> "laid_out", geo |-> geo]]
          /\ config' = ConfigAfterLayout(config, geo)
    /\ UNCHANGED <<scale_factor, person_name, person_image_ok, qr_code_ok, pdf_card,
                   png_card, lb_vars, image_vars, text_vars, run_vars, border_vars>>

CallLineBreak(c) ==
    /\ calls[c].pc = "laid_out"
    /\ LET threshold == calls[c].geo.name_length_threshold
           mx == CfgGet(config, "name_max_lines", 2)
           lns == IF calls[c].backend = "pdf"
                  THEN optimal_line_break(calls[c].name, threshold, mx)
                  ELSE png_optimal_line_break(calls[c].name, threshold, mx)
       IN calls' = [calls EXCEPT ![c] = [backend |-> calls[c].backend,
                                        name |-> calls[c].name,
                                        pc |-> "returned", geo |-> calls[c].geo,
                                        lines |-> lns]]
    /\ UNCHANGED <<config, scale_factor, person_name, person_image_ok, qr_code_ok,
                   pdf_card, png_card, lb_vars, image_vars, text_vars, run_vars, border_vars>>

CallsNext == \E c \in {1, 2} : CallLayout(c) \/ CallLineBreak(c)

SpecCalls == CallsInit /\ [][CallsNext]_vars

-----------------------------------------------------------------------------
(* add_border_to_subject (add_border.py).  An image is a function from pixel *)
(* positions <<column, row>> to RGBA values <<r, g, b, a>>, as the numpy      *)
(* array data[row, column] holds them.                                        *)

\* widest enumerated border
MaxBorderWidth == 2

\* the pixel positions of the enumerated images: two rows, and one column more
\* than the widest border reaches
Positions == (1 .. (MaxBorderWidth + 1)) \X (1 .. 2)

\* hex_to_rgb: lstrip('#'), then int(hex_color[i:i+2], 16) for i in (0, 2, 4)
hex_to_rgb(hex_color) ==
    LET hashes == {i \in 1 .. Len(hex_color) : \A j \in 1 .. i : hex_color[j] = "#"}
        h == SubSeq(hex_color, Cardinality(hashes) + 1, Len(hex_color))
        upper == <<"0","1","2","3","4","5","6","7","8","9","A","B","C","D","E","F">>
        lower == <<"0","1","2","3","4","5","6","7","8","9","a","b","c","d","e","f">>
        digit(c) == (CHOOSE k \in 1 .. 16 : c = upper[k] \/ c = lower[k]) - 1
        byte(i) == (16 * digit(h[i + 1])) + digit(h[i + 2])
    IN <<byte(0), byte(2), byte(4)>>

\* subject_mask = alpha > 0
subject_mask(data) == [p \in DOMAIN data |-> data[p][4] > 0]

\* variant: a dilation by the 4-neighbour cross
binary_dilation_cross(mask) ==
    [p \in DOMAIN mask |->
        \E q \in DOMAIN mask :
            /\ mask[q]
            /\ (q[1] - p[1]) \in -1 .. 1
            /\ (q[2] - p[2]) \in -1 .. 1
            /\ q[1] = p[1] \/ q[2] = p[2]]

\* scipy.ndimage.binary_dilation with structure = np.ones((3, 3)): a pixel is
\* set when the mask holds a set pixel in its 3 x 3 neighbourhood; outside the
\* image nothing is set
binary_dilation(mask) ==
    [p \in DOMAIN mask |->
        \E q \in DOMAIN mask :
            /\ mask[q]
            /\ (q[1] - p[1]) \in -1 .. 1
            /\ (q[2] - p[2]) \in -1 .. 1]

\* `for _ in range(border_width): dilated_mask = binary_dilation(...)`
RECURSIVE DilatedMask(_, _)
DilatedMask(mask, n) ==
    IF n <= 0 THEN mask ELSE DilatedMask(binary_dilation(mask), n - 1)

\* add_border_to_subject: the result and the pixels of the file it saves
add_border_to_subject(data, border_color, border_width) ==
    LET mask == subject_mask(data) IN
    IF \A p \in DOMAIN mask : ~mask[p]
    THEN [called |-> TRUE, ret |-> TRUE, data |-> data]
    ELSE LET dilated_mask == DilatedMask(mask, border_width)
             border_mask == [p \in DOMAIN mask |-> dilated_mask[p] /\ ~mask[p]]
             border_rgba == hex_to_rgb(border_color) \o <<255>>
         IN [called |-> TRUE, ret |-> TRUE,
             data |-> [p \in DOMAIN data |->
                          IF border_mask[p] THEN border_rgba ELSE data[p]]]

\* images of transparent, faint and opaque pixels; a colour with and one
\* without the leading '#'
BorderInit ==
    /\ border_call \in
          [data : [Positions -> {<<0, 0, 0, 0>>, <<255, 255, 255, 1>>, <<9, 9, 9, 255>>}],
           border_color : {<<"#","F","F","0","0","0","0">>, <<"0","0","8","0","f","f">>},
           border_width : 0 .. MaxBorderWidth]
    /\ border_saved = NotCalled
    /\ LbIdle
    /\ CardIdle
    /\ ImageIdle
    /\ TextIdle
    /\ RunIdle

AddBorderToSubject ==
    /\ ~border_saved.called
    /\ border_saved' = add_border_to_subject(border_call.data, border_call.border_color,
                                             border_call.border_width)
    /\ UNCHANGED <<border_call, lb_vars, card_vars, image_vars, text_vars, run_vars>>

SpecBorder == BorderInit /\ [][AddBorderToSubject]_vars

-----------------------------------------------------------------------------
(* Claims about _optimal_line_break *)

Returned == lb_pc \in {"pdf_returned", "png_returned"}

\* the token list the returned call worked on (its local `tokens`)
CallTokens == tokens_out

\* the split points i in [1, token_count) whose first line fits the threshold
ValidSplits(tokens, threshold) ==
    {i \in 1 .. (Len(tokens) - 1) : Len(Join(Take(tokens, i))) <= threshold}

AliceBob == <<"A","l","i","c","e",","," ","B","o","b">>
Carter == <<"C","a","r","t","e","r">>
AliceComma == <<"A","l","i","c","e",",">>
BobCarter == <<"B","o","b"," ","C","a","r","t","e","r">>

\* C1: with max_lines = 2 and at least 2 tokens, whenever some split point has a
\* first line of length <= char_threshold, the call returns exactly two lines, the
\* first of length <= char_threshold and the longest first line among the split
\* points that fit, the second the remaining tokens; "Alice, Bob Carter" with
\* threshold 10 gives ["Alice, Bob", "Carter"]; in both generators.
C1_MaximalValidSplit ==
    /\ (Returned /\ max_lines = 2 /\ Len(CallTokens) >= 2
          /\ ValidSplits(CallTokens, char_threshold) # {})
        => /\ Len(lines) = 2
           /\ Len(lines[1]) <= char_threshold
           /\ \E i \in ValidSplits(CallTokens, char_threshold) :
                /\ lines = <<Join(Take(CallTokens, i)), Join(Drop(CallTokens, i))>>
                /\ \A j \in ValidSplits(CallTokens, char_threshold) :
                      Len(Join(Take(CallTokens, j))) <= Len(lines[1])
    /\ (Returned /\ max_lines = 2 /\ text = AliceBobCarter /\ char_threshold = 10)
        => lines = <<AliceBob, Carter>>

\* C1 witness: the raster generator broke "Alice, Bob Carter" at threshold 10, where
\* two split points fit (lengths 6 and 10) and the longer one was taken.
C1_Witness ==
    /\ lb_pc = "png_returned" /\ max_lines = 2
    /\ text = AliceBobCarter /\ char_threshold = 10
    /\ Cardinality(ValidSplits(CallTokens, char_threshold)) = 2
    /\ lines = <<AliceBob, Carter>>

\* C2: with max_lines = 2 and at least 2 tokens, when no split point has a first
\* line of length <= char_threshold, the call returns the midpoint split: the first
\* token_count // 2 tokens joined by spaces, then the remaining tokens joined.
C2_MidpointFallback ==
    (Returned /\ max_lines = 2 /\ Len(CallTokens) >= 2
       /\ ValidSplits(CallTokens, char_threshold) = {})
     => lines = <<Join(Take(CallTokens, Len(CallTokens) \div 2)),
                  Join(Drop(CallTokens, Len(CallTokens) \div 2))>>

\* C2 witness: three tokens, none of the split points fits threshold 5, and the
\* vector generator returned the split after 3 // 2 = 1 token.
C2_Witness ==
    /\ lb_pc = "pdf_returned" /\ max_lines = 2
    /\ text = AliceBobCarter /\ char_threshold = 5
    /\ ValidSplits(CallTokens, char_threshold) = {}
    /\ lines = <<AliceComma, BobCarter>>

\* C3: a text of 0 or 1 tokens is returned unchanged as the only line, whatever
\* char_threshold and max_lines are, surrounding spaces and commas included.
C3_DegenerateUnchanged ==
    (Returned /\ Len(CallTokens) <= 1) => lines = <<text>>

\* C3 witness: " a, " has the single token "a," and came back with its spaces,
\* under a threshold shorter than the text and max_lines = 3.
C3_Witness ==
    /\ lb_pc = "pdf_returned" /\ max_lines = 3 /\ char_threshold = 1
    /\ text = <<" ", "a", ",", " ">>
    /\ Len(CallTokens) = 1
    /\ lines = <<text>>

\* the number of commas of a text
RECURSIVE CommaCount(_)
CommaCount(txt) ==
    IF txt = <<>> THEN 0
    ELSE (IF txt[1] = "," THEN 1 ELSE 0) + CommaCount(Tail(txt))

\* the commas of a text that follow a word: some character other than space and
\* comma stands before them
CommasAfterAWord(txt) ==
    Cardinality({i \in 1 .. Len(txt) :
                    txt[i] = "," /\ \E j \in 1 .. (i - 1) : txt[j] \notin {" ", ","}})

\* C4: the tokenizer keeps every comma of the text that follows a word, as the last
\* character of a token; no token is empty or contains a space.
C4_EveryCommaKept ==
    LET tokens == CallTokens IN
    Returned =>
    /\ CommaCount(Join(tokens)) = CommasAfterAWord(text)
    /\ \A k \in 1 .. Len(tokens) :
          /\ tokens[k] # <<>>
          /\ \A p \in 1 .. Len(tokens[k]) :
                /\ tokens[k][p] # " "
                /\ (tokens[k][p] = "," => p = Len(tokens[k]) /\ p > 1)

-----------------------------------------------------------------------------
(* Claims about the tier and the geometry of generate_card *)

\* the configuration's values as both generators read them
CfgThreshold == CfgGet(config, "name_length_threshold", 22)
CfgTopPadding == CfgGet(config, "top_padding_pt", 0)
CfgBottomPadding == CfgGet(config, "bottom_padding_pt", 0)
CfgBottomBoxHeight == CfgGet(config, "bottom_box_height_pt", 0)

PdfDone == pdf_card.called /\ pdf_card.ret
PngDone == png_card.called /\ png_card.ret

\* the tier a card was laid out with: box height, font size, multiline
TierOf(card) ==
    <<card.geo.rect.name.height, card.geo.name_font_size, card.geo.name_multiline>>

LongTier(k) ==
    <<k * config["name_box_height_pt_long"], k * config["name_font_size_pt_long"], TRUE>>
ShortTier(k) ==
    <<k * config["name_box_height_pt_short"], k * config["name_font_size_pt_short"], FALSE>>

\* C5: a name longer than name_length_threshold gets the long tier (long box
\* height, long font size, multiline), a name of length equal to or below it gets
\* the short tier (single line), in both backends; with threshold 22 the
\* 41-character name is long and "Bo" is short.
C5_StrictTier ==
    /\ PdfDone => TierOf(pdf_card) = IF Len(person_name) > CfgThreshold
                                     THEN LongTier(1) ELSE ShortTier(1)
    /\ PngDone => TierOf(png_card) = IF Len(person_name) > CfgThreshold
                                     THEN LongTier(scale_factor)
                                     ELSE ShortTier(scale_factor)
    /\ (PdfDone /\ PngDone /\ CfgThreshold = 22 /\ person_name = DrEvelyn)
        => TierOf(pdf_card) = LongTier(1) /\ TierOf(png_card) = LongTier(scale_factor)
    /\ (PdfDone /\ PngDone /\ CfgThreshold = 22 /\ person_name = Bo)
        => TierOf(pdf_card) = ShortTier(1) /\ TierOf(png_card) = ShortTier(scale_factor)

\* C5 witness: a name of exactly 22 characters under threshold 22 was laid out
\* by both backends, and got the short tier.
C5_Witness ==
    /\ PdfDone /\ PngDone
    /\ person_name = Name22 /\ CfgThreshold = 22
    /\ TierOf(pdf_card) = ShortTier(1)
    /\ TierOf(png_card) = ShortTier(scale_factor)

\* the height of a section as the configuration gives it, in points
SectionHeightPt(sec) ==
    CASE sec = "photo" -> config["photo_section_height_pt"]
      [] sec = "name" -> IF Len(person_name) > CfgThreshold
                         THEN config["name_box_height_pt_long"]
                         ELSE config["name_box_height_pt_short"]
      [] sec = "qr" -> config["qr_section_height_pt"]
      [] sec = "message" -> config["message_box_height_pt"]
      [] sec = "bottom_box" -> CfgBottomBoxHeight

\* the sections above a section, top down
Above(sec) ==
    CASE sec = "photo" -> {}
      [] sec = "name" -> {"photo"}
      [] sec = "qr" -> {"photo", "name"}
      [] sec = "message" -> {"photo", "name", "qr"}
      [] sec = "bottom_box" -> {"photo", "name", "qr", "message"}

RECURSIVE SumHeightsPt(_)
SumHeightsPt(secs) ==
    IF secs = {} THEN 0
    ELSE LET sec == CHOOSE x \in secs : TRUE
         IN SectionHeightPt(sec) + SumHeightsPt(secs \ {sec})

\* top_padding + top_margin + the heights of the sections above, plus the gap for
\* the message and the bottom box, in points
ExpectedTopPt(sec) ==
    CfgTopPadding + config["top_margin_pt"] + SumHeightsPt(Above(sec))
    + (IF sec \in {"message", "bottom_box"} THEN config["gap_before_message_pt"] ELSE 0)

\* C6: in top-down layout space the top of every section is top_padding +
\* top_margin + the heights of all sections above it, plus gap_before_message for
\* the message and the bottom box, in the order photo, name, QR, message, bottom
\* box; in the raster backend with every length multiplied by the scale factor.
C6_StackedTops ==
    /\ PdfDone => \A sec \in Sections : pdf_card.geo.y_top[sec] = ExpectedTopPt(sec)
    /\ PngDone => \A sec \in Sections :
                     png_card.geo.y_top[sec] = scale_factor * ExpectedTopPt(sec)

\* C6 witness: a long name, top padding 1 and gap 1: the vector message top is
\* 1 + 10 + 200 + 50 + 100 + 1 = 362 and the raster one is 362 * scale_factor.
C6_Witness ==
    /\ PdfDone /\ PngDone
    /\ person_name = DrEvelyn /\ CfgThreshold = 22
    /\ CfgTopPadding = 1 /\ config["gap_before_message_pt"] = 1
    /\ config["photo_section_height_pt"] = 200
    /\ pdf_card.geo.y_top["message"] = 362
    /\ png_card.geo.y_top["message"] = 362 * scale_factor

\* the vertical interval [top, top + height) of two rectangles is disjoint
Disjoint(r1, r2) ==
    \/ r1.y + r1.height <= r2.y
    \/ r2.y + r2.height <= r1.y

NonNegativeHeights ==
    /\ \A sec \in Sections : SectionHeightPt(sec) >= 0
    /\ config["gap_before_message_pt"] >= 0

\* C7: with non-negative section heights and gap, no two of the five section
\* rectangles overlap vertically, in the native coordinates of either backend
\* (bottom-up points in the vector one, top-down pixels in the raster one), for
\* both name tiers.
C7_NoOverlap ==
    /\ (PdfDone /\ NonNegativeHeights) =>
          \A s1, s2 \in Sections :
             s1 # s2 => Disjoint(pdf_card.geo.rect[s1], pdf_card.geo.rect[s2])
    /\ (PngDone /\ NonNegativeHeights) =>
          \A s1, s2 \in Sections :
             s1 # s2 => Disjoint(png_card.geo.rect[s1], png_card.geo.rect[s2])

\* C7 witness: five sections of positive height with no gap between QR and
\* message, laid out by both backends: QR and message touch and do not overlap.
C7_Witness ==
    /\ PdfDone /\ PngDone
    /\ \A sec \in Sections : SectionHeightPt(sec) > 0
    /\ config["gap_before_message_pt"] = 0
    /\ pdf_card.geo.rect["message"].y + pdf_card.geo.rect["message"].height
         = pdf_card.geo.rect["qr"].y
    /\ png_card.geo.rect["qr"].y + png_card.geo.rect["qr"].height
         = png_card.geo.rect["message"].y

\* the distance from the top edge of the page to the top edge of a rectangle of
\* the vector output (ReportLab's y grows upward from the bottom edge)
PdfFromTop(sec) ==
    pdf_card.geo.page_height
    - (pdf_card.geo.rect[sec].y + pdf_card.geo.rect[sec].height)

\* C8: for the same configuration and name every section is at the same place in
\* both outputs up to the scale factor: the distance from the page top to the
\* section top in the vector output, times scale_factor, is the section's y in
\* the raster output, and likewise x, width and height; for every top_padding_pt
\* and bottom_padding_pt.
C8_BackendsAgree ==
    (PdfDone /\ PngDone) =>
       \A sec \in Sections :
          /\ scale_factor * PdfFromTop(sec) = png_card.geo.rect[sec].y
          /\ scale_factor * pdf_card.geo.rect[sec].x = png_card.geo.rect[sec].x
          /\ scale_factor * pdf_card.geo.rect[sec].width = png_card.geo.rect[sec].width
          /\ scale_factor * pdf_card.geo.rect[sec].height = png_card.geo.rect[sec].height

-----------------------------------------------------------------------------
(* Claims about image placement *)

FillPlaced == placed.called /\ placed.by \in {"draw", "paste"}

\* the size the image is drawn at: a float in the vector backend, a pair of
\* ints in the raster backend
FinalWidth ==
    IF placed.by = "paste" THEN DyOfInt(placed.final_width) ELSE placed.final_width
FinalHeight ==
    IF placed.by = "paste" THEN DyOfInt(placed.final_height) ELSE placed.final_height

\* C9: fill placement draws the image at least as wide and at least as high as
\* the box, and exactly as wide or exactly as high as the box, in the vector
\* backend and, after int(), in the raster backend
C9_FillCoversBox ==
    FillPlaced =>
        /\ DyLeq(DyOfInt(box.width), FinalWidth)
        /\ DyLeq(DyOfInt(box.height), FinalHeight)
        /\ (FinalWidth = DyOfInt(box.width) \/ FinalHeight = DyOfInt(box.height))

FitPlaced ==
    placed.called /\ placed.by = "convert" /\ placed.ret /\ placed.fit_to_page

\* C10: with fit_to_page the drawn image lies inside the padded area of the
\* page, whether it is centred or anchored at (left_pad, bottom_pad)
C10_FitInsidePaddedArea ==
    FitPlaced =>
        /\ DyLeq(DyOfInt(placed.left_pad), placed.x)
        /\ DyLeq(DyAdd(placed.x, placed.width),
                 DyOfInt(placed.page_width - placed.right_pad))
        /\ DyLeq(DyOfInt(placed.bottom_pad), placed.y)
        /\ DyLeq(DyAdd(placed.y, placed.height),
                 DyOfInt(placed.page_height - placed.top_pad))

\* the size handed to the drawing primitive by whichever placement ran
DrawnWidth == IF placed.by = "convert" THEN placed.width ELSE FinalWidth
DrawnHeight == IF placed.by = "convert" THEN placed.height ELSE FinalHeight

\* C11: every placement keeps the aspect ratio of the image exactly:
\* drawn_width * img_height = drawn_height * img_width, in the vector fill, in
\* the raster fill and in every placement of convert_png_to_pdf
C11_AspectRatioExact ==
    (placed.called /\ placed.ret) =>
        DyMulInt(image_size[2], DrawnWidth) = DyMulInt(image_size[1], DrawnHeight)

-----------------------------------------------------------------------------
(* Claims about _draw_centered_text *)

SingleLineDrawn == text_drawn.called /\ text_drawn.mode = "single"
TooWide == text_drawn.measured > text_drawn.max_width

\* C12: in single-line mode a text measured wider than box_width - 2 * padding
\* at font size s is drawn at s' = floor(s * (box_width - 2 * padding) /
\* measured_width), s' < s, and is then no wider than box_width - 2 * padding;
\* a text that fits keeps font size s
C12_ShrinkToFit ==
    SingleLineDrawn /\ text_drawn.max_width >= 0 =>
        IF TooWide
        THEN /\ text_drawn.font_size =
                   (text_call.font_size * text_drawn.max_width) \div text_drawn.measured
             /\ text_drawn.font_size < text_call.font_size
             /\ text_drawn.text_width <= text_drawn.max_width
        ELSE text_drawn.font_size = text_call.font_size

ExactFloor == (text_call.font_size * text_drawn.max_width) \div text_drawn.measured

\* C12 as amended: the new size is int(s * (max_width / measured_width)) in
\* float arithmetic, which is the floor of the exact quotient or one less; it is
\* below s and the text re-measured at it is no wider than max_width; a text
\* that fits keeps font size s
C12_ShrinkToFitRounded ==
    SingleLineDrawn /\ text_drawn.max_width >= 0 =>
        IF TooWide
        THEN /\ text_drawn.font_size \in {ExactFloor, ExactFloor - 1}
             /\ text_drawn.font_size < text_call.font_size
             /\ text_drawn.text_width <= text_drawn.max_width
        ELSE text_drawn.font_size = text_call.font_size

\* a text too wide at 22 pt whose exact quotient is the integer 15 and which is
\* drawn at 14 pt
C12_Witness ==
    /\ SingleLineDrawn
    /\ TooWide
    /\ text_call.font_size = 22
    /\ ExactFloor = 15
    /\ text_drawn.font_size = 14
    /\ text_drawn.text_width <= text_drawn.max_width

\* the exact quotient s * |max_width| / measured_width, rounded down
ExactMagnitude ==
    LET w == text_drawn.max_width
    IN (text_call.font_size * (IF w < 0 THEN -w ELSE w)) \div text_drawn.measured

C25_NegativeSize ==
    /\ SingleLineDrawn
    /\ text_drawn.max_width < 0
    /\ text_drawn.font_size < 0

-----------------------------------------------------------------------------
(* Further claims about the two-line break of _optimal_line_break *)

TwoLineReturned == Returned /\ max_lines = 2 /\ Len(CallTokens) >= 2

\* C26: with max_lines = 2 and at least 2 tokens the call returns exactly two
\* non-empty lines that hold every token once and in order: the lines are the
\* tokens before and from some split point, and line 1, one space, line 2 is
\* all tokens joined by single spaces; in the threshold branch and in the
\* midpoint fallback, in both generators
C26_TwoLinesHoldEveryToken ==
    TwoLineReturned =>
        /\ Len(lines) = 2
        /\ lines[1] # <<>>
        /\ lines[2] # <<>>
        /\ lines[1] \o <<" ">> \o lines[2] = Join(CallTokens)
        /\ \E i \in 1 .. (Len(CallTokens) - 1) :
              lines = <<Join(Take(CallTokens, i)), Join(Drop(CallTokens, i))>>

\* "a b a b" under threshold 0: no split point fits and the raster generator
\* returned the midpoint split "a b" / "a b"
C26_Witness ==
    /\ lb_pc = "png_returned" /\ max_lines = 2
    /\ text = FourTokens /\ char_threshold = 0
    /\ ValidSplits(CallTokens, char_threshold) = {}
    /\ lines = << <<"a"," ","b">>, <<"a"," ","b">> >>

\* the call took `else: mid = len(tokens) // 2`, that is, its loop left
\* best_break at 0
FallbackTaken ==
    IF lb_pc = "pdf_returned" THEN BestBreak(CallTokens, char_threshold) = 0
    ELSE PngBestBreak(CallTokens, char_threshold) = 0

FirstTokenFits == Len(CallTokens[1]) <= char_threshold

\* C27: with max_lines = 2 and at least 2 tokens the midpoint fallback is taken
\* exactly when the first token alone is longer than char_threshold; the first
\* line the fallback returns is longer than char_threshold, and when the first
\* token fits the first line returned is not longer than char_threshold
C27_FallbackIffFirstTokenTooLong ==
    TwoLineReturned =>
        /\ FallbackTaken <=> ~FirstTokenFits
        /\ FallbackTaken =>
              /\ lines[1] = Join(Take(CallTokens, Len(CallTokens) \div 2))
              /\ Len(lines[1]) > char_threshold
        /\ FirstTokenFits => Len(lines[1]) <= char_threshold

\* "a b a b" under threshold 1: the first token is exactly as long as the
\* threshold, the vector generator did not fall back and returned "a" / "b a b"
C27_Witness ==
    /\ lb_pc = "pdf_returned" /\ max_lines = 2
    /\ text = FourTokens /\ char_threshold = 1
    /\ FirstTokenFits
    /\ ~FallbackTaken
    /\ lines = << <<"a">>, <<"b"," ","a"," ","b">> >>

\* a first token longer than the threshold: the fallback was taken and its
\* first line exceeds the threshold
C27_FallbackCase ==
    /\ TwoLineReturned
    /\ ~FirstTokenFits
    /\ FallbackTaken
    /\ Len(lines[1]) > char_threshold

-----------------------------------------------------------------------------
(* Claims about the greedy packer of _optimal_line_break *)

GreedyReturned == Returned /\ max_lines # 2 /\ max_lines >= 1 /\ Len(CallTokens) >= 2

\* lns[k], lns[k + 1], ... are consecutive runs of tokens beginning at token
\* start, and every run of more than one token is at most threshold long
RECURSIVE RunsFrom(_, _, _, _, _)
RunsFrom(tokens, start, lns, k, threshold) ==
    IF k > Len(lns) THEN TRUE
    ELSE \E n \in 1 .. (Len(tokens) - start + 1) :
            /\ lns[k] = Join(SubSeq(tokens, start, start + n - 1))
            /\ (n > 1 => Len(lns[k]) <= threshold)
            /\ RunsFrom(tokens, start + n, lns, k + 1, threshold)

\* C13: for max_lines other than 2 and at least two tokens the greedy packer
\* returns at most max_lines lines, which are consecutive runs of the tokens in
\* order from the first token on; a line of more than one token is at most
\* char_threshold long; tokens beyond the last line are dropped
C13_GreedyPacker ==
    GreedyReturned =>
        /\ Len(lines) <= max_lines
        /\ RunsFrom(CallTokens, 1, lines, 1, char_threshold)

\* the packer ran out of lines: four tokens, three lines, the last token dropped
C13_Witness ==
    /\ GreedyReturned
    /\ max_lines = 3
    /\ Len(CallTokens) = 4
    /\ Len(lines) = 3
    /\ \A k \in 1 .. 3 : lines[k] = CallTokens[k]

-----------------------------------------------------------------------------
(* Claims about a run of main *)

Events == {run_log[i][2] : i \in 1 .. Len(run_log)}

KeyErrors ==
    {"KeyError output_directory", "KeyError input_csv", "KeyError qr_code_path",
     "KeyError layout", "KeyError background_color", "KeyError qr_code_size_pt",
     "KeyError message_text", "KeyError message_font_size_pt"}

MissingRequiredKey ==
    run_pc # "idle" /\ ~(RequiredKeys(run_backend, run_config) \subseteq DOMAIN run_config)

\* C14: when a required configuration key is missing, no canvas is ever
\* created for any record, and a KeyError is the last thing the run does: it
\* aborts the run, it is not turned into a failed record after which the loop
\* goes on.
C14_MissingKeyFatal ==
    MissingRequiredKey =>
        /\ "canvas" \notin Events
        /\ \A i \in 1 .. Len(run_log) :
              run_log[i][2] \in KeyErrors => i = Len(run_log) /\ run_pc = "aborted"

\* what the log holds for the record at position i
EventsAt(i) == {run_log[j][2] : j \in {k \in 1 .. Len(run_log) : run_log[k][1] = i}}
FailuresAt(i) ==
    Cardinality({j \in 1 .. Len(run_log) :
                    run_log[j][1] = i /\ run_log[j][2] \in {"skip", "return_false"}})
FailuresLogged ==
    Cardinality({j \in 1 .. Len(run_log) : run_log[j][2] \in {"skip", "return_false"}})

\* the loop has left the record at position i behind
Past(i) == run_pc = "done" \/ (run_pc # "aborted" /\ idx > i)

\* a row without a name or an image reference, or whose image file is missing
\* or is no image
BadRow(row) ==
    LET name_field == RowGet(row, "name")
        image_field == RowGet(row, "image")
    IN \/ name_field.none
       \/ image_field.none
       \/ Strip(name_field.s) = <<>>
       \/ Strip(image_field.s) = <<>>
       \/ ~validate_image(Strip(image_field.s))

\* C15: a row whose name or image field is missing or blank, or whose image
\* file is missing or unreadable, never ends the run; once the loop is past
\* it, it has been counted as exactly one failure and nothing was laid out or
\* drawn for it; the failure counter is the number of such failures so far.
C15_BadRowSkipped ==
    run_pc # "idle" =>
        /\ fail_count = FailuresLogged
        /\ \A i \in 1 .. Len(csv_rows) :
              BadRow(csv_rows[i]) =>
                  /\ ~(run_pc = "aborted" /\ idx = i)
                  /\ EventsAt(i) \cap {"layout", "canvas", "painted", "saved"} = {}
                  /\ Past(i) => FailuresAt(i) = 1

\* the exceptions raised between the creation of the canvas and the end of save
PaintExceptions ==
    {"ZeroDivisionError", "OSError save", "KeyError background_color",
     "KeyError qr_code_size_pt", "KeyError message_text", "KeyError message_font_size_pt"}

\* C16: an exception raised while one record is painted or saved is followed
\* at once by generate_card returning False for that record; the record is
\* counted as one failure, the failure counter is the number of failures so
\* far, and the run is not aborted by it.
C16_PaintExceptionCaught ==
    \A j \in 1 .. Len(run_log) :
        run_log[j][2] \in PaintExceptions =>
            /\ "canvas" \in EventsAt(run_log[j][1])
            /\ j < Len(run_log)
            /\ run_log[j + 1] = <<run_log[j][1], "return_false">>
            /\ FailuresAt(run_log[j][1]) = 1
            /\ fail_count = FailuresLogged
            /\ ~(run_pc = "aborted" /\ idx = run_log[j][1])

\* a zero-dimension photo in the first record, a card saved for the second one
C16_Witness ==
    /\ run_pc = "done"
    /\ "ZeroDivisionError" \in EventsAt(1)
    /\ "saved" \in EventsAt(2)
    /\ fail_count = 1
    /\ success_count = 1

\* for the record at position i, event a is logged before event b
Before(i, a, b) ==
    \E j, k \in 1 .. Len(run_log) :
        j < k /\ run_log[j] = <<i, a>> /\ run_log[k] = <<i, b>>

CallOrder(i) ==
    /\ "canvas" \in EventsAt(i) =>
          /\ Before(i, "person image valid", "qr image valid")
          /\ Before(i, "qr image valid", "canvas")
    /\ "saved" \in EventsAt(i) =>
          /\ Before(i, "canvas", "painted")
          /\ Before(i, "painted", "saved")
    /\ "return_true" \in EventsAt(i) => Before(i, "saved", "return_true")
    /\ "return_false" \in EventsAt(i) => "saved" \notin EventsAt(i)

C18_ExitStatusReflectsFailures ==
    /\ run_pc = "done" =>
          /\ success_count + fail_count = Len(csv_rows)
          /\ exit_status = "0" <=> fail_count = 0
    /\ run_pc = "aborted" => exit_status # "0"

\* the (name, output path) pairs of this run and of the run before it
AllPaths == paths \cup (IF earlier_run = <<>> THEN {} ELSE earlier_run.paths)

-----------------------------------------------------------------------------
(* Claims about calls that overlap *)

\* what the call would compute if it were the only one on the generator
AloneGeometry(c) ==
    IF calls[c].backend = "pdf" THEN PdfGeometry(config, calls[c].name)
    ELSE PngGeometry(config, 4, calls[c].name)
AloneLines(c) ==
    IF calls[c].backend = "pdf"
    THEN optimal_line_break(calls[c].name, CfgGet(config, "name_length_threshold", 22), 2)
    ELSE png_optimal_line_break(calls[c].name, CfgGet(config, "name_length_threshold", 22), 2)

-----------------------------------------------------------------------------
(* Claims about section borders *)

\* the side of rectangle r as <<x1, y1, x2, y2>> in native coordinates; the
\* top of the page is at the larger y when y grows upward
SideOf(r, side, y_up) ==
    CASE side = "left" -> <<r.x, r.y, r.x, r.y + r.height>>
      [] side = "right" -> <<r.x + r.width, r.y, r.x + r.width, r.y + r.height>>
      [] side = "top" -> IF y_up THEN <<r.x, r.y + r.height, r.x + r.width, r.y + r.height>>
                         ELSE <<r.x, r.y, r.x + r.width, r.y>>
      [] side = "bottom" -> IF y_up THEN <<r.x, r.y, r.x + r.width, r.y>>
                            ELSE <<r.x, r.y + r.height, r.x + r.width, r.y + r.height>>

\* the side of the section an edge lies on: the stroked line itself, or the
\* outer side of the filled strip
OuterSide(e, stroked) ==
    IF stroked THEN <<e.x1, e.y1, e.x2, e.y2>>
    ELSE CASE e.side = "left" -> <<e.x1, e.y1, e.x1, e.y2>>
           [] e.side = "right" -> <<e.x2, e.y1, e.x2, e.y2>>
           [] e.side = "top" -> <<e.x1, e.y1, e.x2, e.y1>>
           [] e.side = "bottom" -> <<e.x1, e.y2, e.x2, e.y2>>

EdgesAsConfigured(card, y_up) ==
    \A sec \in {"name", "qr", "message"}, side \in {"top", "bottom", "left", "right"} :
        LET edges == {e \in card.borders : e.section = sec /\ e.side = side}
        IN IF side \in CfgGet(config, BorderSidesKey(sec), {})
           THEN /\ Cardinality(edges) = 1
                /\ \A e \in edges : OuterSide(e, y_up) = SideOf(card.geo.rect[sec], side, y_up)
           ELSE edges = {}

\* C24: for the name, QR and message sections and each of the four sides, one
\* border edge is painted when the side is in the section's configured side
\* set and none otherwise (none at all when the key is absent); the edge lies
\* on the full length of that side of the section rectangle, 'top' being the
\* side with the larger native y in the vector backend and with the smaller y
\* in the raster backend.
C24_BorderEdges ==
    /\ PdfDone => EdgesAsConfigured(pdf_card, TRUE)
    /\ PngDone => EdgesAsConfigured(png_card, FALSE)

\* both backends have painted a card whose QR section has a bottom and a left
\* border only and whose message box has no bottom border
C24_Witness ==
    /\ PdfDone
    /\ PngDone
    /\ "qr_section_border_sides" \in DOMAIN config
    /\ config["qr_section_border_sides"] = {"bottom", "left"}
    /\ {e.side : e \in {f \in pdf_card.borders : f.section = "qr"}} = {"bottom", "left"}
    /\ {e.side : e \in {f \in png_card.borders : f.section = "message"}} = {"top", "right", "left"}

-----------------------------------------------------------------------------
(* Further claims about image placement *)

\* the free space left and right of the drawn image (negative when the image
\* is wider than the box), exact
LeftMargin == DySub(IF placed.by = "paste" THEN DyOfInt(placed.x_offset) ELSE placed.x_offset,
                    DyOfInt(box.x))
RightMargin ==
    DySub(DyOfInt(box.x + box.width),
          DyAdd(IF placed.by = "paste" THEN DyOfInt(placed.x_offset) ELSE placed.x_offset,
                FinalWidth))

\* C22: in fill placement the photo is centred horizontally in the box (to
\* the pixel in the raster backend, where the right margin is the left one or
\* one pixel more; to within 2^-10 pt in the vector backend), and its native y
\* is the native y of the box: the top edge of the section in the raster
\* backend, whose y grows downward, the bottom edge in the vector backend,
\* whose y grows upward.
C22_PhotoAnchored ==
    FillPlaced =>
        /\ placed.by = "paste" =>
              /\ placed.y_offset = box.y
              /\ DySub(RightMargin, LeftMargin) \in {DyOfInt(0), DyOfInt(1)}
        /\ placed.by = "draw" =>
              /\ placed.y_offset = DyOfInt(box.y)
              /\ DyLess(DySub(RightMargin, LeftMargin), Dy(FALSE, <<1>>, -10))
              /\ DyLess(DySub(LeftMargin, RightMargin), Dy(FALSE, <<1>>, -10))

\* a portrait photo pasted into a lower box: its top is the top of the box
\* and it reaches below the bottom of the box
C22_Witness ==
    /\ FillPlaced
    /\ placed.by = "paste"
    /\ placed.y_offset = box.y
    /\ placed.final_height > box.height
    /\ placed.final_width < box.width + 2

-----------------------------------------------------------------------------
(* Claims about text on several lines *)

MultiLineDrawn == text_drawn.called /\ text_drawn.mode = "multi"
LineCount == Len(text_drawn.lines)
LineWidth(i) == StringWidth(text_drawn.lines[i], text_drawn.font_size, text_call.char_width)

\* a length of the vector backend is within 2^-10 pt of another
Near(p, q) ==
    /\ DyLess(DySub(p, q), Dy(FALSE, <<1>>, -10))
    /\ DyLess(DySub(q, p), Dy(FALSE, <<1>>, -10))

\* the lines are drawn in order from the top of the page downward, one pitch
\* apart, the block of LineCount pitches is centred in the box and every line
\* is centred on its own width; the raster backend to the pixel
RasterLinesCentred(pitch) ==
    /\ \A i \in 1 .. LineCount - 1 :
          text_drawn.text_y[i + 1] - text_drawn.text_y[i] = pitch
    /\ ((text_call.y + text_call.height) - (text_drawn.text_y[LineCount] + pitch))
          - (text_drawn.text_y[1] - text_call.y) \in {0, 1}
    /\ \A i \in 1 .. LineCount :
          (text_call.width - LineWidth(i)) - 2 * (text_drawn.text_x[i] - text_call.x)
             \in {0, 1}

\* the same in the vector backend, whose y grows upward and whose drawString
\* takes the base line of a line of text
VectorLinesCentred(pitch) ==
    /\ \A i \in 1 .. LineCount - 1 :
          Near(DySub(text_drawn.text_y[i], text_drawn.text_y[i + 1]), pitch)
    /\ Near(DySub(text_drawn.text_y[LineCount], DyOfInt(text_call.y)),
            DySub(DyOfInt(text_call.y + text_call.height),
                  DyAdd(text_drawn.text_y[1], pitch)))
    /\ \A i \in 1 .. LineCount :
          Near(DyMulInt(2, DySub(text_drawn.text_x[i], DyOfInt(text_call.x))),
               DyOfInt(text_call.width - LineWidth(i)))

\* C23 as stated: in multiline mode both backends draw the lines from top to
\* bottom with a pitch of 1.2 times the font size (5 * pitch = 6 * font_size),
\* the block centred in the box and every line centred on its own width.
C23_LinePitch ==
    MultiLineDrawn =>
        /\ text_drawn.by = "png" =>
              /\ 5 * text_drawn.line_height = 6 * text_drawn.font_size
              /\ RasterLinesCentred(text_drawn.line_height)
        /\ text_drawn.by = "pdf" =>
              /\ Near(DyMulInt(5, text_drawn.line_height), DyOfInt(6 * text_drawn.font_size))
              /\ VectorLinesCentred(text_drawn.line_height)

\* C23 amended: the pitch is 1.2 times the font size in the vector backend and
\* that product rounded down to whole pixels in the raster backend; with this
\* pitch the lines are drawn from top to bottom, the block is centred in the
\* box and every line is centred on its own width.
C23_LinePitchWholePixels ==
    MultiLineDrawn =>
        /\ text_drawn.by = "png" =>
              /\ text_drawn.line_height = (12 * text_drawn.font_size) \div 10
              /\ RasterLinesCentred((12 * text_drawn.font_size) \div 10)
        /\ text_drawn.by = "pdf" =>
              /\ Near(DyMulInt(5, text_drawn.line_height), DyOfInt(6 * text_drawn.font_size))
              /\ VectorLinesCentred(text_drawn.line_height)

\* a name drawn on two lines by the raster backend at font size 14, where 1.2
\* times the font size is no whole number
C23_Witness ==
    /\ MultiLineDrawn
    /\ text_drawn.by = "png"
    /\ LineCount = 2
    /\ text_drawn.font_size = 14
    /\ text_drawn.line_height = 16

-----------------------------------------------------------------------------
(* Further claims about a run of main *)

\* the log entries that end the handling of a row
RowEnds == {"skip", "return_false", "return_true"}
EndsAt(i) ==
    Cardinality({j \in 1 .. Len(run_log) : run_log[j][1] = i /\ run_log[j][2] \in RowEnds})
SuccessesLogged ==
    Cardinality({j \in 1 .. Len(run_log) : run_log[j][2] = "return_true"})
InLoop == run_pc \notin {"idle", "main", "done", "aborted"}

\* C28: generate_all_cards handles the rows once each and in file order and
\* counts each once: at every point of the loop success_count + fail_count is
\* the number of rows already handled (idx - 1), each of them has ended exactly
\* once, as a success or as a failure, no later row has been touched, and at
\* the summary success_count + fail_count is the number of rows
C28_RowsCountedOnce ==
    /\ InLoop =>
          /\ idx \in 1 .. (Len(csv_rows) + 1)
          /\ success_count + fail_count = idx - 1
    /\ run_pc = "done" =>
          /\ idx = Len(csv_rows) + 1
          /\ success_count + fail_count = Len(csv_rows)
    /\ (InLoop \/ run_pc = "done") =>
          /\ success_count = SuccessesLogged
          /\ fail_count = FailuresLogged
          /\ \A i \in 1 .. (idx - 1) : EndsAt(i) = 1
          /\ \A i \in idx .. Len(csv_rows) : EndsAt(i) = 0
          /\ \A j \in 1 .. Len(run_log) : run_log[j][1] <= idx
          /\ \A j \in 1 .. (Len(run_log) - 1) : run_log[j][1] <= run_log[j + 1][1]

\* a file of two rows at its summary: the first row was skipped, the second
\* gave a card
C28_Witness ==
    /\ run_pc = "done"
    /\ Len(csv_rows) = 2
    /\ "skip" \in EventsAt(1)
    /\ "return_true" \in EventsAt(2)
    /\ success_count = 1
    /\ fail_count = 1

\* the names differ at most in the case of their letters and in characters
\* that a file name shows as '_'
Underscored(c) == ~IsAlnum(c) /\ c # "-"
SameButCaseAndUnderscores(n1, n2) ==
    /\ Len(n1) = Len(n2)
    /\ \A i \in 1 .. Len(n1) :
          \/ LowerChar(n1[i]) = LowerChar(n2[i])
          \/ Underscored(n1[i]) /\ Underscored(n2[i])

\* the name of the record at position i, as the loop passes it on
RowName(i) == Strip(RowGet(csv_rows[i], "name").s)
\* two records with different names of that kind have both given a card
CollidingSuccesses ==
    \E i, j \in 1 .. Len(csv_rows) :
        /\ i < j
        /\ "return_true" \in EventsAt(i)
        /\ "return_true" \in EventsAt(j)
        /\ RowName(i) # RowName(j)
        /\ SameButCaseAndUnderscores(RowName(i), RowName(j))

\* C29: within one batch two records whose names differ only in letter case
\* or in characters replaced by '_' (such as "a b" and "a_b") get the same
\* output path; the later card replaces the earlier file and both records are
\* counted as successes, so that fewer files than success_count are written
C29_CollidingNamesShareFile ==
    /\ \A e1, e2 \in paths :
          SameButCaseAndUnderscores(e1[1], e2[1]) => e1[2] = e2[2]
    /\ (InLoop \/ run_pc = "done") =>
          /\ success_count = SuccessesLogged
          /\ Cardinality(written) <= success_count
          /\ CollidingSuccesses => Cardinality(written) < success_count

\* "a b" and then "a_b" have both given a card: two successes, one file
C29_Witness ==
    /\ run_pc = "done"
    /\ Len(csv_rows) = 2
    /\ RowName(1) = AspaceB
    /\ RowName(2) = <<"a", "_", "b">>
    /\ CollidingSuccesses
    /\ success_count = 2
    /\ Cardinality(written) = 1
    /\ Cardinality(disk) = 1

\* "Bo" and then "bo": the same, for names that differ in case
C29_CaseOnly ==
    /\ run_pc = "done"
    /\ Len(csv_rows) = 2
    /\ RowName(1) = Bo
    /\ RowName(2) = <<"b", "o">>
    /\ success_count = 2
    /\ Cardinality(written) = 1

\* the border colour as an opaque pixel
BorderPixel ==
    IF border_call.border_color[1] = "#" THEN <<255, 0, 0, 255>> ELSE <<0, 128, 255, 255>>

\* the larger of the column distance and the row distance
Chebyshev(p, q) ==
    LET dx == IF p[1] < q[1] THEN q[1] - p[1] ELSE p[1] - q[1]
        dy == IF p[2] < q[2] THEN q[2] - p[2] ELSE p[2] - q[2]
    IN IF dx < dy THEN dy ELSE dx

\* a fully transparent pixel within border_width steps of a pixel of the subject
InBorder(p) ==
    /\ border_call.data[p][4] = 0
    /\ \E q \in Positions :
          /\ border_call.data[q][4] > 0
          /\ Chebyshev(p, q) <= border_call.border_width

C30_EmptyImage ==
    /\ border_saved.called
    /\ border_call.border_width = 2
    /\ \A p \in Positions : border_call.data[p][4] = 0
    /\ border_saved.ret
    /\ border_saved.data = border_call.data

\* C21: whenever generate_card has returned, a canvas that the call created
\* has been saved or closed: between two records and after the loop no
\* canvas is left that was dropped without being finalized.
C21_CanvasFinalized ==
    run_pc \in {"row", "done"} => canvas \in {"none", "saved"}

====
